---- MODULE Spec2Model ----
(***************************************************************************)
(* A model of the LZO1X codec of github.com/woozymasta/lzo: the            *)
(* back-reference copier (copy.go), the decoder state machine              *)
(* (decompress.go), the fast LZO1X-1 parser (compress_1x_fast.go) and the  *)
(* high-compression LZO1X-999 parser with its token encoder                *)
(* (sliding_window.go).                                                    *)
(*                                                                         *)
(* Byte slices are sequences; the Go index i of a slice s is s[i+1], and   *)
(* the helpers At and Slice keep the source's 0-based indices.  Large      *)
(* zero-initialised arrays (hash tables, the ring buffer) are kept as      *)
(* sparse maps: an index outside the map's domain holds the zero value.    *)
(***************************************************************************)
EXTENDS Integers, Sequences, FiniteSets, TLC

VARIABLES
    pc,      \* which operation is running, and where it is
    cb,      \* the frame of a direct copyBackRef call
    inBuf,   \* the input of Compress
    level,   \* the level given to Compress
    fast,    \* the frame of compress1xFastCore
    hc,      \* the frame of compress999NoAlloc: hcState, hcCompressorDict, locals
    cmp,     \* the stream Compress returned
    dec,     \* the frame of decompressCore
    api,     \* the Decompress / DecompressN call: its arguments and what it returned
    pool     \* hcDictPool, hcCompressBufferPool and the concurrent calls that use them

vars == <<pc, cb, inBuf, level, fast, hc, cmp, dec, api, pool>>

----------------------------------------------------------------------------
(* Bounds of the model. *)

\* longest destination buffer of a direct copyBackRef call
MaxDst == 5
\* longest byte string drawn for the decoder on arbitrary input
MaxTokens == 3
\* largest destination size tried by the decoder on arbitrary input
MaxOutLen == 6
\* longest input of Compress drawn over the whole alphabet
MaxLen == 5
\* length of the byte runs in the long inputs of Compress
LongRun == 18
\* levels tried below 0 and above 9
LevelSlack == 1
\* goroutines that call the compressor at once
Goroutines == 2
\* calls of the compressor the goroutines make in all
MaxCalls == 3
\* room for the bytes of one encoded match
MaxMatchBytes == 8
\* largest value given to the zero-extension encoders
MaxExtended == 770
\* most bytes cut off the end of a compressed stream
MaxCut == 32

----------------------------------------------------------------------------
(* Bytes, bit operations and Go slices. *)

Min(a, b) == IF a < b THEN a ELSE b
Max(a, b) == IF a > b THEN a ELSE b

RECURSIVE BitXor(_, _)
BitXor(a, b) ==
    IF a = 0 THEN b
    ELSE IF b = 0 THEN a
    ELSE (((a % 2) + (b % 2)) % 2) + 2 * BitXor(a \div 2, b \div 2)

RECURSIVE BitAnd(_, _)
BitAnd(a, b) ==
    IF a = 0 \/ b = 0 THEN 0
    ELSE ((a % 2) * (b % 2)) + 2 * BitAnd(a \div 2, b \div 2)

RECURSIVE BitOr(_, _)
BitOr(a, b) ==
    IF a = 0 THEN b
    ELSE IF b = 0 THEN a
    ELSE (IF a % 2 = 1 \/ b % 2 = 1 THEN 1 ELSE 0) + 2 * BitOr(a \div 2, b \div 2)

\* s[i] of the source
At(s, i) == s[i + 1]

\* s[a:b] of the source
Slice(s, a, b) == SubSeq(s, a + 1, b)

\* make([]byte, n)
Zeros(n) == [i \in 1..n |-> 0]

\* s with s[i] = v
SetAt(s, i, v) == [s EXCEPT ![i + 1] = v]

\* Go's copy(dst[to:to+n], dst[from:from+n]) within one slice: memmove, the
\* source bytes are those held before the call.
CopyWithin(dst, to, from, n) ==
    LET m == Min(n, Len(dst) - to)
    IN  IF m <= 0 THEN dst
        ELSE SubSeq(dst, 1, to) \o [i \in 1 .. m |-> dst[from + i]]
                 \o SubSeq(dst, to + m + 1, Len(dst))

\* Go's copy(dst[to:to+Len(data)], data)
CopyInto(dst, to, data) ==
    LET m == Min(Len(data), Len(dst) - to)
    IN  IF m <= 0 THEN dst
        ELSE SubSeq(dst, 1, to) \o SubSeq(data, 1, m)
                 \o SubSeq(dst, to + m + 1, Len(dst))

\* opcodeByte: the low 8 bits
opcodeByte(v) == v % 256

\* All sequences over S of length at most n
RECURSIVE SeqsUpTo(_, _)
SeqsUpTo(S, n) ==
    IF n = 0 THEN {<<>>}
    ELSE LET shorter == SeqsUpTo(S, n - 1)
         IN  shorter \cup {Append(s, b) : s \in {t \in shorter : Len(t) = n - 1}, b \in S}

----------------------------------------------------------------------------
(* copy.go: copyBackRef. *)

ErrNone == "nil"
ErrLookBehindUnderrun == "ErrLookBehindUnderrun"
ErrOutputOverrun == "ErrOutputOverrun"
ErrInputOverrun == "ErrInputOverrun"
ErrUnexpectedEOF == "ErrUnexpectedEOF"
ErrEmptyInput == "ErrEmptyInput"
ErrOptionsRequired == "ErrOptionsRequired"
ErrCompressInternal == "ErrCompressInternal"

\* The checks at the top of copyBackRef, in the order of the source.
CopyCheckLookBehindLast(dstLen, outputPos, dist, length) ==
    IF outputPos + length > dstLen THEN ErrOutputOverrun
    ELSE IF outputPos - dist < 0 THEN ErrLookBehindUnderrun
    ELSE ErrNone

CopyCheck(dstLen, outputPos, dist, length) ==
    IF outputPos - dist < 0 THEN ErrLookBehindUnderrun
    ELSE IF outputPos + length > dstLen THEN ErrOutputOverrun
    ELSE ErrNone

\* dist >= length: one bulk copy of the whole match.
BulkCopy(dst, outputPos, dist, length) ==
    CopyWithin(dst, outputPos, outputPos - dist, length)

\* The seed: copy(dst[outputPos:outputPos+dist], dst[mPos:outputPos]).
SeedChunk(dst, outputPos, dist) ==
    CopyWithin(dst, outputPos, outputPos - dist, dist)

\* The number of bytes one pass of the doubling loop copies.
DoubleCountWhole(copied, length) == copied

DoubleCount(copied, length) == Min(length - copied, copied)

\* One pass of the doubling loop:
\* n := copy(dst[outputPos+copied:outputPos+length], dst[outputPos:outputPos+copied])
DoubleStep(dst, outputPos, copied, length) ==
    CopyWithin(dst, outputPos + copied, outputPos, DoubleCount(copied, length))

RECURSIVE DoubleLoop(_, _, _, _)
DoubleLoop(dst, outputPos, copied, length) ==
    IF copied < length
    THEN DoubleLoop(DoubleStep(dst, outputPos, copied, length), outputPos,
                    copied + DoubleCount(copied, length), length)
    ELSE dst

\* copyBackRef as the decoder calls it (dist >= 1 there): the error and dst after.
copyBackRef(dst, outputPos, dist, length) ==
    LET err == CopyCheck(Len(dst), outputPos, dist, length)
    IN  IF err # ErrNone THEN [err |-> err, dst |-> dst]
        ELSE IF dist >= length
        THEN [err |-> ErrNone, dst |-> BulkCopy(dst, outputPos, dist, length)]
        ELSE [err |-> ErrNone,
              dst |-> DoubleLoop(SeedChunk(dst, outputPos, dist), outputPos, dist, length)]

\* The strict byte-by-byte copy: dst[outputPos+i] = dst[mPos+i] for i = from..length-1.
RECURSIVE ByteByByte(_, _, _, _, _)
ByteByByte(dst, outputPos, dist, from, length) ==
    IF from >= length THEN dst
    ELSE ByteByByte(SetAt(dst, outputPos + from, At(dst, outputPos - dist + from)),
                    outputPos, dist, from + 1, length)

----------------------------------------------------------------------------
(* decompress.go: the decoder. *)

shortMatchBaseOffset == 2048

stateBeginLoop == "stateBeginLoop"
stateFirstLiteralRun == "stateFirstLiteralRun"
stateMatch == "stateMatch"
stateMatchDone == "stateMatchDone"
stateMatchNext == "stateMatchNext"
stateMatchEnd == "stateMatchEnd"

\* The frame of decompressCore(src, dst) on entry.
DecFrame(src, dst) ==
    [src |-> src, dst |-> dst,
     state |-> stateBeginLoop, instructionByte |-> 0, trailingSourceByte |-> 0,
     runLength |-> 0, matchLength |-> 0, backRefDistance |-> 0,
     inputOffset |-> 0, outputOffset |-> 0,
     returned |-> FALSE, panic |-> FALSE,
     outWritten |-> 0, inConsumed |-> 0, err |-> ErrNone]

\* The frame when no decode is running.
DecIdle == DecFrame(<<>>, <<>>)

\* return 0, 0, err
DecFail(d, e) ==
    [d EXCEPT !.returned = TRUE, !.outWritten = 0, !.inConsumed = 0, !.err = e]

\* return outputOffset, inputOffset, nil
DecSucceedWholeInput(d) ==
    [d EXCEPT !.returned = TRUE, !.outWritten = d.outputOffset,
              !.inConsumed = Len(d.src), !.err = ErrNone]

DecSucceed(d) ==
    [d EXCEPT !.returned = TRUE, !.outWritten = d.outputOffset,
              !.inConsumed = d.inputOffset, !.err = ErrNone]

\* readByte
readByte(src, inputOffset, inputLen) ==
    IF inputOffset >= inputLen
    THEN [err |-> ErrInputOverrun, b |-> 0, inputOffset |-> inputOffset]
    ELSE [err |-> ErrNone, b |-> At(src, inputOffset), inputOffset |-> inputOffset + 1]

\* readUint16LittleEndian
readUint16LittleEndian(src, inputOffset, inputLen) ==
    IF inputOffset + 2 > inputLen
    THEN [err |-> ErrInputOverrun, v |-> 0, inputOffset |-> inputOffset]
    ELSE [err |-> ErrNone,
          v |-> At(src, inputOffset) + 256 * At(src, inputOffset + 1),
          inputOffset |-> inputOffset + 2]

\* readZeroExtendedLength: the loop, with the length accumulated so far
RECURSIVE readZeroExtendedLoop(_, _, _, _, _)
readZeroExtendedLoop(src, inputOffset, inputLen, base, length) ==
    IF inputOffset >= inputLen
    THEN [err |-> ErrInputOverrun, length |-> 0, inputOffset |-> inputOffset]
    ELSE IF At(src, inputOffset) # 0
    THEN [err |-> ErrNone, length |-> length + base + At(src, inputOffset),
          inputOffset |-> inputOffset + 1]
    ELSE readZeroExtendedLoop(src, inputOffset + 1, inputLen, base, length + 255)

readZeroExtendedLengthOneByte(src, inputOffset, inputLen, base) ==
    IF inputOffset >= inputLen
    THEN [err |-> ErrInputOverrun, length |-> 0, inputOffset |-> inputOffset]
    ELSE [err |-> ErrNone, length |-> base + At(src, inputOffset),
          inputOffset |-> inputOffset + 1]

readZeroExtendedLength(src, inputOffset, inputLen, base) ==
    readZeroExtendedLoop(src, inputOffset, inputLen, base, 0)

\* The guard of a literal copy of n bytes: false when the run leaves the input
\* or the output.
LiteralRunFitsInputOnly(inputOffset, outputOffset, n, inputLen, outputLen) ==
    ~(inputOffset + n > inputLen)

LiteralRunFits(inputOffset, outputOffset, n, inputLen, outputLen) ==
    ~(inputOffset + n > inputLen \/ outputOffset + n > outputLen)

\* copy(dst[outputOffset:outputOffset+n], src[inputOffset:inputOffset+n]) and the
\* two offsets advanced; a slice expression out of range panics.
CopyLiteral(d, n) ==
    IF d.inputOffset + n > Len(d.src) \/ d.outputOffset + n > Len(d.dst)
    THEN [d EXCEPT !.panic = TRUE, !.returned = TRUE]
    ELSE [d EXCEPT !.dst = CopyInto(d.dst, d.outputOffset,
                                    Slice(d.src, d.inputOffset, d.inputOffset + n)),
                   !.inputOffset = d.inputOffset + n,
                   !.outputOffset = d.outputOffset + n]

\* instructionByte = int(src[inputOffset]); inputOffset++
FetchInstruction(d) ==
    [d EXCEPT !.instructionByte = At(d.src, d.inputOffset),
              !.inputOffset = d.inputOffset + 1]

\* The error returned when the input ends right after the literal run of the
\* main loop.
BeginLoopEndOfInput == ErrInputOverrun

\* What the decoder does when the input ends right after the initial literal run.
FirstRunAtEofSucceeds(d) == DecSucceed(d)

FirstRunAtEof(d) == DecFail(d, ErrUnexpectedEOF)

\* Lines 95-133: the first byte, and the initial literal run it may announce.
DecodeFirstByte(d0) ==
    IF Len(d0.src) = 0 THEN DecFail(d0, ErrEmptyInput)
    ELSE
    LET d == FetchInstruction(d0)
    IN  IF d.instructionByte > 17
        THEN LET runLength == d.instructionByte - 17
                 d1 == [d EXCEPT !.runLength = runLength]
             IN  IF ~LiteralRunFits(d1.inputOffset, d1.outputOffset, runLength,
                                    Len(d1.src), Len(d1.dst))
                 THEN DecFail(d1, ErrInputOverrun)
                 ELSE LET d2 == CopyLiteral(d1, runLength)
                      IN  IF d2.panic THEN d2
                          ELSE IF d2.inputOffset >= Len(d2.src)
                          THEN FirstRunAtEof(d2)
                          ELSE [FetchInstruction(d2) EXCEPT !.state = stateFirstLiteralRun]
        ELSE [d EXCEPT !.state = stateBeginLoop]

\* case stateBeginLoop
StepBeginLoop(d) ==
    IF d.instructionByte >= 16 THEN [d EXCEPT !.state = stateMatch]
    ELSE
    LET z == IF d.instructionByte = 0
             THEN readZeroExtendedLength(d.src, d.inputOffset, Len(d.src), 15)
             ELSE [err |-> ErrNone, length |-> d.instructionByte,
                   inputOffset |-> d.inputOffset]
    IN  IF z.err # ErrNone
        THEN DecFail([d EXCEPT !.runLength = z.length,
                               !.inputOffset = z.inputOffset], z.err)
        ELSE
        LET runLength == z.length + 3
            d1 == [d EXCEPT !.runLength = runLength, !.inputOffset = z.inputOffset]
        IN  IF ~LiteralRunFits(d1.inputOffset, d1.outputOffset, runLength,
                               Len(d1.src), Len(d1.dst))
            THEN DecFail(d1, ErrInputOverrun)
            ELSE LET d2 == CopyLiteral(d1, runLength)
                 IN  IF d2.panic THEN d2
                     ELSE IF d2.inputOffset >= Len(d2.src)
                     THEN DecFail(d2, BeginLoopEndOfInput)
                     ELSE LET d3 == FetchInstruction(d2)
                          IN  [d3 EXCEPT !.trailingSourceByte = d3.instructionByte,
                                         !.state = stateFirstLiteralRun]

\* A decoded back-reference: copyBackRef, then outputOffset += length and
\* state = stateMatchDone.
ApplyMatch(d, dist, length) ==
    LET r == copyBackRef(d.dst, d.outputOffset, dist, length)
        d1 == [d EXCEPT !.backRefDistance = dist]
    IN  IF r.err # ErrNone THEN DecFail(d1, r.err)
        ELSE [d1 EXCEPT !.dst = r.dst,
                        !.outputOffset = d.outputOffset + length,
                        !.state = stateMatchDone]

\* case stateFirstLiteralRun
StepFirstLiteralRun(d) ==
    IF d.instructionByte >= 16 THEN [d EXCEPT !.state = stateMatch]
    ELSE
    LET rb == readByte(d.src, d.inputOffset, Len(d.src))
    IN  IF rb.err # ErrNone THEN DecFail(d, rb.err)
        ELSE ApplyMatch([d EXCEPT !.inputOffset = rb.inputOffset],
                        (1 + shortMatchBaseOffset) + (d.instructionByte \div 4) + (rb.b * 4),
                        3)

\* What the terminator branch does once the distance base is zero:
\* it returns success whatever the decoded length is.
Terminator(d) == DecSucceed(d)

\* case stateMatch, instructionByte < 16: the 2-byte short match
MatchM1(d) ==
    LET rb == readByte(d.src, d.inputOffset, Len(d.src))
    IN  IF rb.err # ErrNone THEN DecFail(d, rb.err)
        ELSE ApplyMatch([d EXCEPT !.inputOffset = rb.inputOffset],
                        1 + (d.instructionByte \div 4) + (rb.b * 4), 2)

\* case stateMatch, instructionByte >= 64
MatchM2(d) ==
    LET rb == readByte(d.src, d.inputOffset, Len(d.src))
    IN  IF rb.err # ErrNone THEN DecFail(d, rb.err)
        ELSE LET matchLength == (d.instructionByte \div 32) - 1 + 2
             IN  ApplyMatch([d EXCEPT !.inputOffset = rb.inputOffset,
                                      !.matchLength = matchLength],
                            ((d.instructionByte \div 4) % 8) + (rb.b * 8) + 1,
                            matchLength)

\* The length of a match of the classes with a zero-extended length
MatchLength(d, mask, base) ==
    IF d.instructionByte % (mask + 1) = 0
    THEN readZeroExtendedLength(d.src, d.inputOffset, Len(d.src), base)
    ELSE [err |-> ErrNone, length |-> d.instructionByte % (mask + 1),
          inputOffset |-> d.inputOffset]

\* case stateMatch, 32 <= instructionByte < 64
MatchM3(d) ==
    LET z == MatchLength(d, 31, 31)
    IN  IF z.err # ErrNone
        THEN DecFail([d EXCEPT !.matchLength = z.length,
                               !.inputOffset = z.inputOffset], z.err)
        ELSE
        LET matchLength == z.length + 2
            r16 == readUint16LittleEndian(d.src, z.inputOffset, Len(d.src))
        IN  IF r16.err # ErrNone
            THEN DecFail([d EXCEPT !.matchLength = matchLength,
                                   !.inputOffset = z.inputOffset], r16.err)
            ELSE ApplyMatch([d EXCEPT !.inputOffset = r16.inputOffset,
                                      !.matchLength = matchLength,
                                      !.trailingSourceByte = r16.v % 256],
                            (r16.v \div 4) + 1, matchLength)

\* case stateMatch, 16 <= instructionByte < 32: the farthest class, or the terminator
MatchM4(d) ==
    LET mLenHigh == ((d.instructionByte \div 8) % 2) * 16384
        z == MatchLength(d, 7, 7)
    IN  IF z.err # ErrNone
        THEN DecFail([d EXCEPT !.matchLength = z.length,
                               !.inputOffset = z.inputOffset], z.err)
        ELSE
        LET matchLength == z.length + 2
            r16 == readUint16LittleEndian(d.src, z.inputOffset, Len(d.src))
        IN  IF r16.err # ErrNone
            THEN DecFail([d EXCEPT !.matchLength = matchLength,
                                   !.inputOffset = z.inputOffset], r16.err)
            ELSE
            LET d1 == [d EXCEPT !.inputOffset = r16.inputOffset,
                                !.matchLength = matchLength,
                                !.trailingSourceByte = r16.v % 256,
                                !.backRefDistance = (r16.v \div 4) + mLenHigh]
            IN  IF d1.backRefDistance = 0 THEN Terminator(d1)
                ELSE ApplyMatch(d1, d1.backRefDistance + 16384, matchLength)

\* case stateMatch
StepMatch(d0) ==
    LET d == [d0 EXCEPT !.trailingSourceByte = d0.instructionByte]
    IN  IF d.instructionByte < 16 THEN MatchM1(d)
        ELSE IF d.instructionByte >= 64 THEN MatchM2(d)
        ELSE IF d.instructionByte >= 32 THEN MatchM3(d)
        ELSE MatchM4(d)

\* case stateMatchDone
StepMatchDone(d) ==
    LET trailingCount == d.trailingSourceByte % 4
    IN  IF trailingCount = 0 THEN [d EXCEPT !.state = stateMatchEnd]
        ELSE IF ~LiteralRunFits(d.inputOffset, d.outputOffset, trailingCount,
                                Len(d.src), Len(d.dst))
        THEN DecFail(d, ErrInputOverrun)
        ELSE LET d2 == CopyLiteral(d, trailingCount)
             IN  IF d2.panic THEN d2
                 ELSE IF d2.inputOffset >= Len(d2.src)
                 THEN DecFail(d2, ErrUnexpectedEOF)
                 ELSE [FetchInstruction(d2) EXCEPT !.state = stateMatchNext]

\* case stateMatchNext
StepMatchNext(d) == [d EXCEPT !.state = stateMatch]

\* What stateMatchEnd does when the input is exhausted.
MatchEndAtEofSucceeds(d) == DecSucceed(d)

MatchEndAtEof(d) == DecFail(d, ErrUnexpectedEOF)

\* stateMatchEnd reading the instruction byte without inputOffset++
StepMatchEndInPlace(d) ==
    IF d.inputOffset >= Len(d.src) THEN MatchEndAtEof(d)
    ELSE [d EXCEPT !.instructionByte = At(d.src, d.inputOffset),
                   !.state = stateBeginLoop]

\* case stateMatchEnd
StepMatchEnd(d) ==
    IF d.inputOffset >= Len(d.src) THEN MatchEndAtEof(d)
    ELSE [FetchInstruction(d) EXCEPT !.state = stateBeginLoop]

\* One pass of the for/switch loop of decompressCore.
DecodeStep(d) ==
    CASE d.state = stateBeginLoop -> StepBeginLoop(d)
      [] d.state = stateFirstLiteralRun -> StepFirstLiteralRun(d)
      [] d.state = stateMatch -> StepMatch(d)
      [] d.state = stateMatchDone -> StepMatchDone(d)
      [] d.state = stateMatchNext -> StepMatchNext(d)
      [] d.state = stateMatchEnd -> StepMatchEnd(d)

----------------------------------------------------------------------------
(* decompress.go: Decompress and DecompressN. *)

\* A slice a call returns: nil, or its bytes.
NilSlice == [isNil |-> TRUE, data |-> <<>>]
SliceOf(data) == [isNil |-> FALSE, data |-> data]

\* The call before it runs: its arguments (opts == nil, or opts.OutLen), nothing
\* returned yet.
ApiCall(src, optsNil, outLen) ==
    [src |-> src, optsNil |-> optsNil, OutLen |-> outLen, returned |-> FALSE,
     decompress |-> [out |-> NilSlice, err |-> ErrNone],
     decompressN |-> [out |-> NilSlice, nRead |-> 0, err |-> ErrNone]]

ApiIdle == ApiCall(<<>>, TRUE, 0)

\* return nil, 0, err
ApiFail(a, e) ==
    [a EXCEPT !.returned = TRUE,
              !.decompress = [out |-> NilSlice, err |-> e],
              !.decompressN = [out |-> NilSlice, nRead |-> 0, err |-> e]]

\* The checks both entry points make before they allocate dst.
ApiCheck(a) ==
    IF a.optsNil THEN ErrOptionsRequired
    ELSE IF Len(a.src) = 0 THEN ErrEmptyInput
    ELSE IF a.OutLen < 0 THEN ErrOptionsRequired
    ELSE ErrNone

\* What the entry points return on an error of decompressCore.
ApiCoreFailedPartial(a, d) ==
    [a EXCEPT !.returned = TRUE,
              !.decompress = [out |-> SliceOf(Slice(d.dst, 0, d.outputOffset)),
                              err |-> d.err],
              !.decompressN = [out |-> SliceOf(Slice(d.dst, 0, d.outputOffset)),
                               nRead |-> d.inputOffset, err |-> d.err]]

ApiCoreFailed(a, d) == ApiFail(a, d.err)

\* What the entry points return once decompressCore has returned.
ApiReturn(a, d) ==
    IF d.panic THEN ApiFail(a, "panic")
    ELSE IF d.err # ErrNone THEN ApiCoreFailed(a, d)
    ELSE [a EXCEPT !.returned = TRUE,
                   !.decompress = [out |-> SliceOf(Slice(d.dst, 0, d.outWritten)),
                                   err |-> ErrNone],
                   !.decompressN = [out |-> SliceOf(Slice(d.dst, 0, d.outWritten)),
                                    nRead |-> d.inConsumed, err |-> ErrNone]]

\* The loop of decompressCore, run until it returns
RECURSIVE DecodeRunWithin(_, _)
DecodeRunWithin(d, n) ==
    IF n <= 0 \/ d.returned THEN d
    ELSE IF n = 1 THEN DecodeStep(d)
    ELSE LET d1 == DecodeRunWithin(d, n \div 2)
         IN  DecodeRunWithin(d1, n - (n \div 2))

\* Of two passes at least one takes an input byte, so 2 * len(src) + 2 passes
\* run the loop to a return: the passes are taken by halves
DecodeRun(d) == DecodeRunWithin(d, 2 * Len(d.src) + 2)

\* Decompress(src, &DecompressOptions{OutLen: outLen}) from call to return
Decompress(src, outLen) ==
    LET a == ApiCall(src, FALSE, outLen)
    IN  IF ApiCheck(a) # ErrNone THEN ApiFail(a, ApiCheck(a))
        ELSE ApiReturn(a, DecodeRun(DecodeFirstByte(DecFrame(src, Zeros(outLen)))))

----------------------------------------------------------------------------
(* The actions of a decode. *)

\* Decompress / DecompressN up to the call of decompressCore
DecompressEnter ==
    /\ pc = "dec_call"
    /\ IF ApiCheck(api) # ErrNone
       THEN /\ api' = ApiFail(api, ApiCheck(api))
            /\ dec' = dec
            /\ pc' = "dec_done"
       ELSE /\ dec' = DecFrame(api.src, Zeros(api.OutLen))
            /\ api' = api
            /\ pc' = "core_entry"
    /\ UNCHANGED <<pool, cb, inBuf, level, fast, hc, cmp>>

\* decompressCore before its loop
DecodeFirst ==
    /\ pc = "core_entry"
    /\ dec' = DecodeFirstByte(dec)
    /\ pc' = IF dec'.returned THEN "core_ret" ELSE "core_loop"
    /\ UNCHANGED <<pool, cb, inBuf, level, fast, hc, cmp, api>>

\* One pass of the loop of decompressCore
DecodeLoop ==
    /\ dec' = DecodeStep(dec)
    /\ pc' = IF dec'.returned THEN "core_ret" ELSE "core_loop"
    /\ UNCHANGED <<pool, cb, inBuf, level, fast, hc, cmp, api>>

\* case stateBeginLoop
DecodeBeginLoop ==
    /\ pc = "core_loop"
    /\ dec.state = stateBeginLoop
    /\ DecodeLoop

\* case stateFirstLiteralRun
DecodeFirstLiteralRun ==
    /\ pc = "core_loop"
    /\ dec.state = stateFirstLiteralRun
    /\ DecodeLoop

\* case stateMatch
DecodeMatch ==
    /\ pc = "core_loop"
    /\ dec.state = stateMatch
    /\ DecodeLoop

\* case stateMatchDone
DecodeMatchDone ==
    /\ pc = "core_loop"
    /\ dec.state = stateMatchDone
    /\ DecodeLoop

\* case stateMatchNext
DecodeMatchNext ==
    /\ pc = "core_loop"
    /\ dec.state = stateMatchNext
    /\ DecodeLoop

\* case stateMatchEnd
DecodeMatchEnd ==
    /\ pc = "core_loop"
    /\ dec.state = stateMatchEnd
    /\ DecodeLoop

\* Decompress / DecompressN after decompressCore has returned
DecompressReturn ==
    /\ pc = "core_ret"
    /\ api' = ApiReturn(api, dec)
    /\ pc' = "dec_done"
    /\ UNCHANGED <<pool, cb, inBuf, level, fast, hc, cmp, dec>>

DecodeNext ==
    \/ DecompressEnter
    \/ DecodeFirst
    \/ DecodeBeginLoop
    \/ DecodeFirstLiteralRun
    \/ DecodeMatch
    \/ DecodeMatchDone
    \/ DecodeMatchNext
    \/ DecodeMatchEnd
    \/ DecompressReturn

----------------------------------------------------------------------------
(* The format constants, and sparse maps for the zero-initialised tables. *)

maxOffsetM1 == 1024
maxOffsetM2 == 2048
maxOffsetM3 == 16384
maxOffsetM4 == 49151
maxOffsetMX == maxOffsetM1 + maxOffsetM2

minLenM2 == 3
maxLenM2 == 8
maxLenM3 == 33
maxLenM4 == 9

markerM1 == 0
markerM2 == 64
markerM3 == 32
markerM4 == 16

dictBits == 14
dictMask == 16383
dictHigh == 8192

\* A table is held as the pages of PageSize entries that were written to;
\* an entry of a page never written to is zero
PageSize == 32

\* A table whose every entry is zero
EmptyMap == <<>>

\* A page whose every entry is zero
ZeroPage == [o \in 0 .. (PageSize - 1) |-> 0] @@ EmptyMap

\* m[k] of a table
Get(m, k) ==
    IF (k \div PageSize) \in DOMAIN m THEN m[k \div PageSize][k % PageSize] ELSE 0

\* m[k] = v
Put(m, k, v) ==
    IF (k \div PageSize) \in DOMAIN m
    THEN [m EXCEPT ![k \div PageSize][k % PageSize] = v]
    ELSE m @@ ((k \div PageSize) :> [ZeroPage EXCEPT ![k % PageSize] = v])

----------------------------------------------------------------------------
(* compress_1x_fast.go: the fast LZO1X-1 parser. *)

\* appendFastMultiple
RECURSIVE appendFastMultiple(_, _)
appendFastMultiple(out, t) ==
    IF t > 255 THEN appendFastMultiple(Append(out, 0), t - 255)
    ELSE Append(out, opcodeByte(t))

\* The header appendFastLiteral writes for the first token of a stream
FirstLiteralHeaderPlain(out, literalCount) == Append(out, opcodeByte(literalCount - 3))

FirstLiteralHeader(out, literalCount) == Append(out, opcodeByte(17 + literalCount))

\* appendFastLiteral
appendFastLiteral(out, lit) ==
    IF Len(lit) = 0 THEN out
    ELSE
    LET literalCount == Len(lit)
        header ==
            IF Len(out) = 0 /\ literalCount <= 238
            THEN FirstLiteralHeader(out, literalCount)
            ELSE IF literalCount <= 3
            THEN SetAt(out, Len(out) - 2,
                       BitOr(At(out, Len(out) - 2), opcodeByte(literalCount)))
            ELSE IF literalCount <= 18
            THEN Append(out, opcodeByte(literalCount - 3))
            ELSE appendFastMultiple(Append(out, 0), literalCount - 18)
    IN  header \o lit

\* The hash of the 4 bytes at inputPos
FastKey(in, inputPos) ==
    LET k3 == At(in, inputPos + 3)
        k2 == BitXor(k3 * 64, At(in, inputPos + 2))
        k1 == BitXor(k2 * 32, At(in, inputPos + 1))
    IN  BitXor(k1 * 32, At(in, inputPos))

FastDictIndex(in, inputPos) == ((33 * FastKey(in, inputPos)) \div 32) % (dictMask + 1)

\* The slot of the second probe
FastSecondIndex(dictIndex) ==
    BitXor(BitAnd(dictIndex, BitAnd(dictMask, 2047)), BitOr(dictHigh, 31))

\* findFastCandidate
findFastCandidate(dict, in, inputPos, dictIndex) ==
    LET matchPos == Get(dict, dictIndex) - 1
    IN  IF matchPos < 0 THEN [matchPos |-> -1, matchOffset |-> 0]
        ELSE IF inputPos = matchPos \/ (inputPos - matchPos) > maxOffsetM4
        THEN [matchPos |-> -1, matchOffset |-> 0]
        ELSE IF (inputPos - matchPos) <= maxOffsetM2
                \/ At(in, matchPos + 3) = At(in, inputPos + 3)
        THEN [matchPos |-> matchPos, matchOffset |-> inputPos - matchPos]
        ELSE [matchPos |-> -1, matchOffset |-> 0]

\* The test of one probe: a usable candidate whose first 3 bytes agree
FastHit(in, inputPos, c) ==
    /\ c.matchPos >= 0
    /\ (c.matchOffset <= maxOffsetM2 \/ At(in, c.matchPos + 3) = At(in, inputPos + 3))
    /\ At(in, c.matchPos) = At(in, inputPos)
    /\ At(in, c.matchPos + 1) = At(in, inputPos + 1)
    /\ At(in, c.matchPos + 2) = At(in, inputPos + 2)

\* for i = 3; i < 9; i++ { inputPos++; if in[matchPos+i] != in[inputPos-1] { break } }:
\* the value of i when the loop ends (inputPos is then p+i+1 on a break, p+9 without)
RECURSIVE FastShortExtend(_, _, _, _)
FastShortExtend(in, matchPos, p, i) ==
    IF i >= 9 THEN 9
    ELSE IF At(in, matchPos + i) # At(in, p + i) THEN i
    ELSE FastShortExtend(in, matchPos, p, i + 1)

\* for inputPos < inputLen && in[m] == in[inputPos] { m++; inputPos++ }:
\* the inputPos the loop ends with
RECURSIVE FastLongExtend(_, _, _)
FastLongExtend(in, m, inputPos) ==
    IF inputPos < Len(in) /\ At(in, m) = At(in, inputPos)
    THEN FastLongExtend(in, m + 1, inputPos + 1)
    ELSE inputPos

\* The two offset bytes the classes M3 and M4 end with
FastOffsetBytes(matchOffset) ==
    <<opcodeByte((matchOffset % 64) * 4), opcodeByte(matchOffset \div 64)>>

\* The encoding of a match the short extension ended (matchLen 3..8)
FastEncodeShort(matchLen, matchOffset) ==
    IF matchOffset <= maxOffsetM2
    THEN LET off == matchOffset - 1
         IN  <<opcodeByte(BitOr((matchLen - 1) * 32, (off % 8) * 4)),
               opcodeByte(off \div 8)>>
    ELSE IF matchOffset <= maxOffsetM3
    THEN LET off == matchOffset - 1
         IN  <<opcodeByte(BitOr(markerM3, matchLen - 2))>> \o FastOffsetBytes(off)
    ELSE LET off == matchOffset - 16384
         IN  <<opcodeByte(BitOr(BitOr(markerM4, BitAnd(off, 16384) \div 2048),
                                matchLen - 2))>>
             \o FastOffsetBytes(off)

\* The encoding of a match of 9 bytes or more
FastEncodeLong(matchLen, matchOffset) ==
    IF matchOffset <= maxOffsetM3
    THEN LET off == matchOffset - 1
         IN  (IF matchLen <= 33
              THEN <<opcodeByte(BitOr(markerM3, matchLen - 2))>>
              ELSE appendFastMultiple(<<opcodeByte(markerM3)>>, matchLen - 33))
             \o FastOffsetBytes(off)
    ELSE LET off == matchOffset - 16384
             head == BitAnd(off, 16384) \div 2048
         IN  (IF matchLen <= maxLenM4
              THEN <<opcodeByte(BitOr(BitOr(markerM4, head), matchLen - 2))>>
              ELSE appendFastMultiple(<<opcodeByte(BitOr(markerM4, head))>>,
                                      matchLen - maxLenM4))
             \o FastOffsetBytes(off)

\* The frame of compress1xFastCore on entry
FastFrame ==
    [dict |-> EmptyMap, literalStart |-> 0, inputPos |-> 4, out |-> <<>>,
     literalTailSize |-> 0, running |-> FALSE]

FastIdle == FastFrame

\* The body of a probe that hit: the pending literals, the match, its encoding
FastEmitMatch(f, in, dictIndex, c) ==
    LET p == f.inputPos
        out1 == IF p # f.literalStart
                THEN appendFastLiteral(f.out, Slice(in, f.literalStart, p))
                ELSE f.out
        i == FastShortExtend(in, c.matchPos, p, 3)
        inputPos == IF i < 9 THEN p + i
                    ELSE FastLongExtend(in, c.matchPos + maxLenM2 + 1, p + 9)
        matchLen == inputPos - p
        token == IF i < 9 THEN FastEncodeShort(matchLen, c.matchOffset)
                 ELSE FastEncodeLong(matchLen, c.matchOffset)
    IN  [f EXCEPT !.dict = Put(f.dict, dictIndex, p + 1),
                  !.out = out1 \o token,
                  !.inputPos = inputPos,
                  !.literalStart = inputPos]

\* One pass of the loop of compress1xFastCore; running is false once it breaks.
FastStep(f, in) ==
    LET p == f.inputPos
        inputLimit == Len(in) - maxLenM2 - 5
        idx0 == FastDictIndex(in, p)
        c0 == findFastCandidate(f.dict, in, p, idx0)
        idx1 == FastSecondIndex(idx0)
        c1 == findFastCandidate(f.dict, in, p, idx1)
        g == IF FastHit(in, p, c0) THEN FastEmitMatch(f, in, idx0, c0)
             ELSE IF FastHit(in, p, c1) THEN FastEmitMatch(f, in, idx1, c1)
             ELSE [f EXCEPT !.dict = Put(f.dict, idx1, p + 1),
                            !.inputPos = p + 1 + ((p - f.literalStart) \div 32)]
    IN  IF g.inputPos >= inputLimit
        THEN [g EXCEPT !.running = FALSE, !.literalTailSize = Len(in) - g.literalStart]
        ELSE g

\* compress1xFast before the loop: short inputs are one literal run
FastEnter(in) ==
    IF Len(in) <= maxLenM2 + 5
    THEN [FastFrame EXCEPT !.literalTailSize = Len(in)]
    ELSE [FastFrame EXCEPT !.running = TRUE]

\* compress1xFast after the loop: the literal tail and the terminator
FastFinish(f, in) ==
    LET ii == Len(in) - f.literalTailSize
        out == IF f.literalTailSize > 0
               THEN appendFastLiteral(f.out, Slice(in, ii, ii + f.literalTailSize))
               ELSE f.out
    IN  out \o <<BitOr(markerM4, 1), 0, 0>>

----------------------------------------------------------------------------
(* sliding_window.go: the LZO1X-999 compressor, its window and its tables. *)

hcHashSize == 16384
hcMaxDist == 49151
hcMaxMatchLen == 2048
hcBufferSize == hcMaxDist + hcMaxMatchLen
hcBufferGuardSize == hcBufferSize + hcMaxMatchLen
hcBestTableSize == maxLenM3 + 1
hcNilNode == 65535

hcSearchDepthByLevel == <<0, 8, 12, 16, 24, 48, 64, 80, 96, 112>>

\* maxCompressedSize
maxCompressedSizeOfInput(inLen) == inLen

\* A buffer with room for the input, one header byte and the end marker, and
\* none for the extension bytes of a literal run
maxCompressedSizeNoSlack(inLen) == inLen + 1 + 3

maxCompressedSize(inLen) == inLen + (inLen \div 16) + 64 + 3

\* match3Key: the low 32 bits of (3 bytes, loaded little-endian) * 0x1e35a7bd,
\* shifted right by 18; the product is formed byte by byte.
match3Key(buffer, pos) ==
    LET b0 == Get(buffer, pos)
        b1 == Get(buffer, pos + 1)
        b2 == Get(buffer, pos + 2)
        t0 == b0 * 189
        t1 == b0 * 167 + b1 * 189 + (t0 \div 256)
        t2 == b0 * 53 + b1 * 167 + b2 * 189 + (t1 \div 256)
        t3 == b0 * 30 + b1 * 53 + b2 * 167 + (t2 \div 256)
    IN  ((t3 % 256) * 256 + (t2 % 256)) \div 4

\* match2Key
match2Key(buffer, pos) == BitXor(Get(buffer, pos), Get(buffer, pos + 1) * 256)

\* hcCompressorDict.init on a dictionary, with the state of a new run
hcInit(src, dict) ==
    LET windSize == Min(Len(src), hcMaxMatchLen)
        filled == 0 .. ((Max(windSize, 3) - 1) \div PageSize)
    IN  [src |-> src,
         inPos |-> windSize,
         windSize |-> windSize,
         windB |-> 0,
         windE |-> windSize,
         cycleCountdown |-> hcMaxDist,
         bufPos |-> 0,
         bufSize |-> 0,
         head3 |-> dict.head3,
         chainSz |-> EmptyMap,
         chain |-> dict.chain,
         slotKey |-> dict.slotKey,
         bestLen |-> dict.bestLen,
         head2 |-> EmptyMap,
         buffer |-> [pg \in (DOMAIN dict.buffer) \cup filled |->
                        IF pg \in filled
                        THEN [o \in 0 .. (PageSize - 1) |->
                                 LET i == pg * PageSize + o
                                 IN  IF i < windSize THEN At(src, i)
                                     ELSE IF i < 3 THEN 0
                                     ELSE Get(dict.buffer, i)]
                        ELSE dict.buffer[pg]] @@ EmptyMap]

\* A dictionary the pool has just allocated
FreshDict ==
    [head3 |-> EmptyMap, chain |-> EmptyMap, slotKey |-> EmptyMap,
     bestLen |-> EmptyMap, buffer |-> EmptyMap]

\* An array of n zero elements, as Go allocates it
ZeroArray(n) == [pg \in 0 .. ((n - 1) \div PageSize) |-> ZeroPage] @@ EmptyMap

\* &hcCompressorDict{} with every element of its arrays written out: the
\* dictionary FreshDict stands for (Get reads 0 where FreshDict has no entry)
ZeroDict ==
    [head3 |-> ZeroArray(hcHashSize), chain |-> ZeroArray(hcBufferSize),
     slotKey |-> ZeroArray(hcBufferSize), bestLen |-> ZeroArray(hcBufferSize),
     buffer |-> ZeroArray(hcBufferGuardSize)]

\* hcState.getByte without the copy into the guard
getByteUnmirrored(h) ==
    LET fromInput == h.inPos < Len(h.src)
        value == IF fromInput THEN At(h.src, h.inPos) ELSE 0
    IN  [h EXCEPT !.inPos = IF fromInput THEN h.inPos + 1 ELSE h.inPos,
                  !.windSize = IF ~fromInput /\ h.windSize > 0
                               THEN h.windSize - 1 ELSE h.windSize,
                  !.buffer = Put(h.buffer, h.windE, value),
                  !.windE = IF h.windE + 1 = hcBufferSize THEN 0 ELSE h.windE + 1,
                  !.windB = IF h.windB + 1 = hcBufferSize THEN 0 ELSE h.windB + 1]

\* hcState.getByte
getByte(h) ==
    LET fromInput == h.inPos < Len(h.src)
        value == IF fromInput THEN At(h.src, h.inPos) ELSE 0
        b1 == Put(h.buffer, h.windE, value)
        b2 == IF h.windE < hcMaxMatchLen THEN Put(b1, hcBufferSize + h.windE, value)
              ELSE b1
    IN  [h EXCEPT !.inPos = IF fromInput THEN h.inPos + 1 ELSE h.inPos,
                  !.windSize = IF ~fromInput /\ h.windSize > 0
                               THEN h.windSize - 1 ELSE h.windSize,
                  !.buffer = b2,
                  !.windE = IF h.windE + 1 = hcBufferSize THEN 0 ELSE h.windE + 1,
                  !.windB = IF h.windB + 1 = hcBufferSize THEN 0 ELSE h.windB + 1]

\* hcState.posToOffset
posToOffsetWrapped(h, pos) == hcBufferSize - (pos - h.windB)

posToOffset(h, pos) ==
    IF h.windB > pos THEN h.windB - pos
    ELSE hcBufferSize - (pos - h.windB)

\* hcMatch3Table.remove (chainSz is a uint16)
match3Remove(h, pos) ==
    LET key == Get(h.slotKey, pos)
    IN  [h EXCEPT !.chainSz = Put(h.chainSz, key, (Get(h.chainSz, key) - 1) % 65536)]

\* hcCompressorDict.resetNextInputEntry
resetNextInputEntry(h) ==
    IF h.cycleCountdown = 0 THEN match3Remove(h, h.windE)
    ELSE [h EXCEPT !.cycleCountdown = h.cycleCountdown - 1]

\* A count that lets the walk take one node more than the chain holds
ChainCountBeyond(n, searchDepth) ==
    LET c == IF n + 1 > hcMaxMatchLen THEN hcMaxMatchLen ELSE n + 1
    IN  IF searchDepth > 0 /\ c > searchDepth THEN searchDepth ELSE c

\* The count hcMatch3Table.advance returns for a chain of n nodes
ChainCount(n, searchDepth) ==
    LET c == IF n > hcMaxMatchLen THEN hcMaxMatchLen ELSE n
    IN  IF searchDepth > 0 /\ c > searchDepth THEN searchDepth ELSE c

\* hcMatch3Table.advance
match3Advance(h, searchDepth) ==
    LET key == match3Key(h.buffer, h.windB)
        count == Get(h.chainSz, key)
        head == Get(h.head3, key)
    IN  [h |-> [h EXCEPT !.chain = Put(h.chain, h.windB, head),
                         !.chainSz = Put(h.chainSz, key, (count + 1) % 65536),
                         !.slotKey = Put(h.slotKey, h.windB, key),
                         !.head3 = Put(h.head3, key, h.windB)],
         head |-> head,
         count |-> ChainCount(count, searchDepth)]

\* hcMatch3Table.skipAdvance without its count of the key
match3SkipAdvanceUncounted(h) ==
    LET key == match3Key(h.buffer, h.windB)
        head == Get(h.head3, key)
    IN  [h EXCEPT !.chain = Put(h.chain, h.windB, head),
                  !.slotKey = Put(h.slotKey, h.windB, key),
                  !.head3 = Put(h.head3, key, h.windB),
                  !.bestLen = Put(h.bestLen, h.windB, hcMaxMatchLen + 1)]

\* hcMatch3Table.skipAdvance
match3SkipAdvance(h) ==
    LET key == match3Key(h.buffer, h.windB)
        head == Get(h.head3, key)
    IN  [h EXCEPT !.chain = Put(h.chain, h.windB, head),
                  !.slotKey = Put(h.slotKey, h.windB, key),
                  !.head3 = Put(h.head3, key, h.windB),
                  !.bestLen = Put(h.bestLen, h.windB, hcMaxMatchLen + 1),
                  !.chainSz = Put(h.chainSz, key, (Get(h.chainSz, key) + 1) % 65536)]

\* hcMatch2Table.add
match2Add(h, pos) ==
    [h EXCEPT !.head2 = Put(h.head2, match2Key(h.buffer, pos), pos + 1)]

\* The search of one position: the best match so far and the first node of each length
SearchStart == [matchLen |-> 1, matchPos |-> 0, bestPosByLen |-> EmptyMap]

\* hcMatch2Table.search
match2Search(h, s) ==
    LET head == Get(h.head2, match2Key(h.buffer, h.windB))
        pos == head - 1
    IN  IF head = 0 THEN s
        ELSE [matchLen |-> IF s.matchLen < 2 THEN 2 ELSE s.matchLen,
              matchPos |-> IF s.matchLen < 2 THEN pos ELSE s.matchPos,
              bestPosByLen |-> IF Get(s.bestPosByLen, 2) = 0
                               THEN Put(s.bestPosByLen, 2, pos + 1)
                               ELSE s.bestPosByLen]

\* The bytes, out of n, that agree from leftPos and rightPos on: what the
\* word loop of countEqualBytes counts with the trailing zero count of the xor
\* of two words loaded little-endian
RECURSIVE EqualPrefix(_, _, _, _)
EqualPrefix(buffer, leftPos, rightPos, n) ==
    IF n <= 0 THEN 0
    ELSE IF n = 1
    THEN IF Get(buffer, leftPos) = Get(buffer, rightPos) THEN 1 ELSE 0
    ELSE LET k == EqualPrefix(buffer, leftPos, rightPos, n \div 2)
         IN  IF k < n \div 2 THEN k
             ELSE k + EqualPrefix(buffer, leftPos + k, rightPos + k, n - k)

\* The byte-by-byte tail of countEqualBytes
RECURSIVE countEqualTail(_, _, _, _, _)
countEqualTail(buffer, leftPos, rightPos, matched, leftLimit) ==
    IF /\ leftPos + matched < leftLimit
       /\ rightPos + matched < hcBufferGuardSize
       /\ Get(buffer, leftPos + matched) = Get(buffer, rightPos + matched)
    THEN countEqualTail(buffer, leftPos, rightPos, matched + 1, leftLimit)
    ELSE matched

\* The whole 8-byte words the word loop of countEqualBytes can compare
WordsToCompare(leftPos, rightPos, matched, leftLimit) ==
    Max(0, Min(leftLimit - (leftPos + matched),
               hcBufferGuardSize - (rightPos + matched)) \div 8)

\* countEqualBytes: the word loop ends inside the first word that differs,
\* the tail loop runs when no whole word is left
countEqualBytes(buffer, leftPos, rightPos, matched, leftLimit) ==
    LET n == 8 * WordsToCompare(leftPos, rightPos, matched, leftLimit)
        k == EqualPrefix(buffer, leftPos + matched, rightPos + matched, n)
    IN  IF k < n THEN matched + k
        ELSE countEqualTail(buffer, leftPos, rightPos, matched + n, leftLimit)

\* The cheap tests of a chain node before its bytes are counted
ChainPrecheck(h, node, currentBest, probeByte) ==
    /\ Get(h.buffer, node + currentBest - 1) = probeByte
    /\ Get(h.buffer, node + currentBest) = Get(h.buffer, h.windB + currentBest)
    /\ Get(h.buffer, node) = Get(h.buffer, h.windB)
    /\ Get(h.buffer, node + 1) = Get(h.buffer, h.windB + 1)

\* The search after a node matched `matched` bytes
ChainRecord(s, node, matched) ==
    LET best == IF matched < hcBestTableSize /\ Get(s.bestPosByLen, matched) = 0
                THEN Put(s.bestPosByLen, matched, node + 1)
                ELSE s.bestPosByLen
    IN  IF matched < 2 THEN s
        ELSE IF matched > s.matchLen
        THEN [matchLen |-> matched, matchPos |-> node, bestPosByLen |-> best]
        ELSE [s EXCEPT !.bestPosByLen = best]

\* The walk of the hash chain in advance before its first pass: the search so
\* far, the node to visit, and whether the loop has been left
WalkFrom(s, node) ==
    [s |-> s, node |-> node, currentBest |-> s.matchLen, stop |-> FALSE]

WalkStop(w) == [w EXCEPT !.stop = TRUE]

\* One pass of the loop that walks the hash chain
ChainNode(h, w) ==
    IF w.stop THEN w
    ELSE IF w.node < 0 \/ w.node >= hcBufferSize \/ w.node = hcNilNode THEN WalkStop(w)
    ELSE IF w.currentBest >= h.windSize THEN WalkStop(w)
    ELSE
    LET probeByte == Get(h.buffer, h.windB + w.currentBest - 1)
        next == Get(h.chain, w.node)
    IN  IF ~ChainPrecheck(h, w.node, w.currentBest, probeByte)
        THEN IF next = hcNilNode THEN WalkStop(w)
             ELSE [w EXCEPT !.node = next]
        ELSE
        LET matched == countEqualBytes(h.buffer, h.windB, w.node, 2, h.windB + h.windSize)
            s2 == ChainRecord(w.s, w.node, matched)
            improved == matched >= 2 /\ matched > w.s.matchLen
        IN  IF improved /\ (matched = h.windSize \/ matched > Get(h.bestLen, w.node))
            THEN WalkStop([w EXCEPT !.s = s2])
            ELSE IF next = hcNilNode THEN WalkStop([w EXCEPT !.s = s2])
            ELSE [s |-> s2, node |-> next, currentBest |-> s2.matchLen, stop |-> FALSE]

\* n passes of that loop: the first half of them followed by the rest
RECURSIVE ChainWalk(_, _, _)
ChainWalk(h, w, n) ==
    IF n <= 0 THEN w
    ELSE IF n = 1 THEN ChainNode(h, w)
    ELSE LET w1 == ChainWalk(h, w, n \div 2)
         IN  IF w1.stop THEN w1 ELSE ChainWalk(h, w1, n - (n \div 2))

\* One pass of the loop of advance over the positions a match skipped
SkipOne(h) == getByte(match3SkipAdvance(resetNextInputEntry(h)))

\* The loop of advance over the positions a match skipped: n passes are the
\* first half of them followed by the rest
RECURSIVE SkipLoop(_, _)
SkipLoop(h, n) ==
    IF n <= 0 THEN h
    ELSE IF n = 1 THEN SkipOne(h)
    ELSE LET h1 == SkipLoop(h, n \div 2)
         IN  IF h1.windSize >= 0 THEN SkipLoop(h1, n - (n \div 2)) ELSE h1

\* The table of offsets advance leaves to its caller
BestOffsets(h, bestPosByLen) ==
    [i \in 0 .. (hcBestTableSize - 1) |->
        IF i >= 2 /\ Get(bestPosByLen, i) > 0
        THEN posToOffset(h, Get(bestPosByLen, i) - 1)
        ELSE 0]

\* The table of offsets at the start of compress999NoAlloc
NoOffsets == [i \in 0 .. (hcBestTableSize - 1) |-> 0]

\* The end of advance: the window after the byte was taken in (h4), the match
\* found in the window h2 and the table of offsets left to the caller
AdvanceResult(h4, h2, s, bestOffsetByLen) ==
    [h |-> [h4 EXCEPT !.bufSize = IF h2.windSize = 0 THEN 0 ELSE h4.windSize + 1,
                      !.bufPos = h4.inPos - (IF h2.windSize = 0 THEN 0 ELSE h4.windSize + 1)],
     matchOff |-> IF 1 < h2.windSize /\ s.matchLen > 1
                  THEN posToOffset(h2, s.matchPos) ELSE 0,
     matchLen |-> IF h2.windSize = 0 THEN 0 ELSE s.matchLen,
     bestOffsetByLen |-> IF 1 >= h2.windSize THEN bestOffsetByLen
                         ELSE BestOffsets(h2, s.bestPosByLen)]

\* advance once the search of the position is over: bestLen of the position,
\* the eviction, the 2-byte table and the next byte
AdvanceFinish(h2, s, bestOffsetByLen) ==
    AdvanceResult(
        getByte(match2Add(resetNextInputEntry(
            [h2 EXCEPT !.bestLen = Put(h2.bestLen, h2.windB,
                                       IF 1 >= h2.windSize THEN hcMaxMatchLen + 1
                                       ELSE s.matchLen)]), h2.windB)),
        h2, s, bestOffsetByLen)

\* The chain walk seeded by the 2-byte table
SearchChain(h2, s0, head, count) == ChainWalk(h2, WalkFrom(s0, head), count).s

\* The search advance makes at the position of the window
AdvanceSearch(h2, head, count) ==
    IF 1 >= h2.windSize THEN SearchStart
    ELSE IF h2.windSize >= 3
    THEN SearchChain(h2, match2Search(h2, SearchStart), head, count)
    ELSE SearchStart

\* advance after the insertion m of the position into the chains
AdvanceInserted(m, bestOffsetByLen) ==
    AdvanceFinish(m.h,
                  AdvanceSearch(m.h, m.head, IF m.head = hcNilNode THEN 0 ELSE m.count),
                  bestOffsetByLen)

\* advance after its loop over the skipped positions
AdvanceAfterSkip(h1, bestOffsetByLen, searchDepth) ==
    AdvanceInserted(match3Advance(h1, searchDepth), bestOffsetByLen)

\* hcCompressorDict.advance: the window after it, the match it returns and the
\* table of offsets it leaves
advance(h0, prevLen, bestOffsetByLen, skip, searchDepth) ==
    AdvanceAfterSkip(IF skip /\ prevLen > 1 THEN SkipLoop(h0, prevLen - 1) ELSE h0,
                     bestOffsetByLen, searchDepth)

\* bestOffsetAt
bestOffsetAt(bestOffsetByLen, idx) ==
    IF idx < 0 \/ idx >= hcBestTableSize THEN 0 ELSE bestOffsetByLen[idx]

\* findBetterMatch: the match (length, offset) it leaves
findBetterMatch(bestOffsetByLen, matchLen, matchOff) ==
    LET keep == [matchLen |-> matchLen, matchOff |-> matchOff]
        one == [matchLen |-> matchLen - 1,
                matchOff |-> bestOffsetAt(bestOffsetByLen, matchLen - 1)]
        two == [matchLen |-> matchLen - 2,
                matchOff |-> bestOffsetAt(bestOffsetByLen, matchLen - 2)]
    IN  IF matchLen <= minLenM2 \/ matchOff <= maxOffsetM2 THEN keep
        ELSE IF /\ matchOff > maxOffsetM2
                /\ matchLen >= minLenM2 + 1 /\ matchLen <= maxLenM2 + 1
                /\ one.matchOff # 0 /\ one.matchOff <= maxOffsetM2
        THEN one
        ELSE IF /\ matchOff > maxOffsetM3
                /\ matchLen >= maxLenM4 + 1 /\ matchLen <= maxLenM2 + 2
                /\ two.matchOff # 0
                /\ bestOffsetAt(bestOffsetByLen, matchLen) <= maxOffsetM2
        THEN two
        ELSE IF /\ matchOff > maxOffsetM3
                /\ matchLen >= maxLenM4 + 1 /\ matchLen <= maxLenM3 + 1
                /\ one.matchOff # 0
                /\ two.matchOff <= maxOffsetM3
        THEN one
        ELSE keep

\* The output buffer of compress999NoAlloc: the bytes before outPos, len(out),
\* and the error of the first write that failed (later writes are not made)
OutBuffer(cap) == [data |-> <<>>, cap |-> cap, err |-> ErrNone]

\* return ErrCompressInternal
OutFail(o) == IF o.err # ErrNone THEN o ELSE [o EXCEPT !.err = ErrCompressInternal]

\* writeByte
writeByte(o, b) ==
    IF o.err # ErrNone THEN o
    ELSE IF Len(o.data) >= o.cap THEN OutFail(o)
    ELSE [o EXCEPT !.data = Append(o.data, b)]

\* writeSlice
writeSlice(o, data) ==
    IF o.err # ErrNone THEN o
    ELSE IF Len(data) > o.cap - Len(o.data) THEN OutFail(o)
    ELSE [o EXCEPT !.data = o.data \o data]

\* writeZeroByteLength with a loop that runs while length >= 255
RECURSIVE writeZeroByteLengthFloor(_, _)
writeZeroByteLengthFloor(o, length) ==
    IF length >= 255 THEN writeZeroByteLengthFloor(writeByte(o, 0), length - 255)
    ELSE writeByte(o, opcodeByte(length))

\* writeZeroByteLength
RECURSIVE writeZeroByteLength(_, _)
writeZeroByteLength(o, length) ==
    IF length > 255 THEN writeZeroByteLength(writeByte(o, 0), length - 255)
    ELSE writeByte(o, opcodeByte(length))

\* out[*outPos-2] |= opcodeByte(literalLen)
OrTrailingLiterals(o, literalLen) ==
    IF o.err # ErrNone THEN o
    ELSE IF Len(o.data) < 2 THEN OutFail(o)
    ELSE [o EXCEPT !.data = SetAt(o.data, Len(o.data) - 2,
                                  BitOr(At(o.data, Len(o.data) - 2),
                                        opcodeByte(literalLen)))]

\* encodeLiteralRun
encodeLiteralRun(o, in, literalStart, literalLen) ==
    IF literalLen = 0 \/ o.err # ErrNone THEN o
    ELSE
    LET header ==
            IF Len(o.data) = 0 /\ literalLen <= 238
            THEN writeByte(o, opcodeByte(17 + literalLen))
            ELSE IF literalLen <= 3 THEN OrTrailingLiterals(o, literalLen)
            ELSE IF literalLen <= 18 THEN writeByte(o, opcodeByte(literalLen - 3))
            ELSE writeZeroByteLength(writeByte(o, 0), literalLen - 18)
    IN  writeSlice(header, Slice(in, literalStart, literalStart + literalLen))

\* The two bytes of an M1 token for the stored offset
EncodeM1(o, off) ==
    writeByte(writeByte(o, opcodeByte(BitOr(markerM1, (off % 4) * 4))),
              opcodeByte(off \div 4))

\* The offset bytes the classes M3 and M4 end with
EncodeOffsetTail(o, off) ==
    writeByte(writeByte(o, opcodeByte((off % 64) * 4)), opcodeByte(off \div 64))

\* The opcode of an M3 or M4 token, with its length extension if any
EncodeLongHeadShort(o, marker, matchLen, maxLen) ==
    writeByte(o, opcodeByte(BitOr(marker, matchLen - 2)))

EncodeLongHead(o, marker, matchLen, maxLen) ==
    IF matchLen <= maxLen
    THEN writeByte(o, opcodeByte(BitOr(marker, matchLen - 2)))
    ELSE writeZeroByteLength(writeByte(o, opcodeByte(marker)), matchLen - maxLen)

\* encodeLookbackMatch
encodeLookbackMatch(o, matchLen, matchOff, lastLiteralLen) ==
    IF o.err # ErrNone THEN o
    ELSE IF matchLen = 2 THEN EncodeM1(o, matchOff - 1)
    ELSE IF matchLen <= maxLenM2 /\ matchOff <= maxOffsetM2
    THEN LET off == matchOff - 1
         IN  writeByte(writeByte(o, opcodeByte(BitOr((matchLen - 1) * 32, (off % 8) * 4))),
                       opcodeByte(off \div 8))
    ELSE IF matchLen = minLenM2 /\ matchOff <= maxOffsetMX /\ lastLiteralLen >= 4
    THEN EncodeM1(o, matchOff - (1 + maxOffsetM2))
    ELSE IF matchOff <= maxOffsetM3
    THEN EncodeOffsetTail(EncodeLongHead(o, markerM3, matchLen, maxLenM3), matchOff - 1)
    ELSE IF matchOff <= maxOffsetM4
    THEN LET off == matchOff - 16384
             head == BitAnd(off, 16384) \div 2048
         IN  EncodeOffsetTail(EncodeLongHead(o, BitOr(markerM4, head), matchLen, maxLenM4),
                              off)
    ELSE OutFail(o)

\* The filter of compress999NoAlloc: the match length it lets through
FilterMatchAnyDistance(matchLen, matchOff, literalLen, outPos) ==
    IF \/ matchLen < 2
       \/ (matchLen = 2 /\ (literalLen = 0 \/ literalLen >= 4))
       \/ (matchLen = 2 /\ outPos = 0)
       \/ (outPos = 0 /\ literalLen = 0)
    THEN 0
    ELSE matchLen

FilterMatch(matchLen, matchOff, literalLen, outPos) ==
    IF \/ matchLen < 2
       \/ (matchLen = 2 /\ (matchOff > maxOffsetM1 \/ literalLen = 0 \/ literalLen >= 4))
       \/ (matchLen = 2 /\ outPos = 0)
       \/ (outPos = 0 /\ literalLen = 0)
    THEN 0
    ELSE IF matchLen = minLenM2 /\ matchOff > maxOffsetMX /\ literalLen >= 4
    THEN 0
    ELSE matchLen

\* compress999Level: the level it runs with
ClampLevelOpen(lvl) == lvl

ClampLevel(lvl) == IF lvl < 1 THEN 1 ELSE IF lvl > 9 THEN 9 ELSE lvl

\* The frame of compress999NoAlloc: not running
HcIdle ==
    [h |-> hcInit(<<>>, FreshDict), o |-> OutBuffer(0), literalLen |-> 0,
     literalStart |-> 0, bestOffsetByLen |-> NoOffsets, matchOff |-> 0, matchLen |-> 0,
     searchDepth |-> 0, skipLeft |-> 0, running |-> FALSE, emitted |-> <<>>]

\* The frame of compress999NoAlloc after a call a of advance
HcAdvanced(c, a) ==
    [c EXCEPT !.h = a.h, !.matchOff = a.matchOff, !.matchLen = a.matchLen,
              !.bestOffsetByLen = a.bestOffsetByLen]

\* searchDepth := hcSearchDepthByLevel[level]: an index outside the array panics
IndexInRange(lvl) == lvl \in 0 .. 9

\* The frame of a run that ended before its loop with the error e (or in a
\* panic): nothing is written
HcStopped(in, dict, e) ==
    [h |-> hcInit(in, dict),
     o |-> [OutBuffer(maxCompressedSize(Len(in))) EXCEPT !.err = e],
     literalLen |-> 0, literalStart |-> Min(Len(in), hcMaxMatchLen),
     bestOffsetByLen |-> NoOffsets, matchOff |-> 0, matchLen |-> 0,
     searchDepth |-> 0, skipLeft |-> 0, running |-> FALSE, emitted |-> <<>>]

\* compress999Level down to the loop of compress999NoAlloc
HcEnter(in, dict, lvl) ==
    IF maxCompressedSize(Len(in)) < 3 THEN HcStopped(in, dict, ErrCompressInternal)
    ELSE IF ~IndexInRange(ClampLevel(lvl)) THEN HcStopped(in, dict, "panic")
    ELSE
    HcAdvanced(
        [h |-> hcInit(in, dict), o |-> OutBuffer(maxCompressedSize(Len(in))),
         literalLen |-> 0, literalStart |-> Min(Len(in), hcMaxMatchLen),
         bestOffsetByLen |-> NoOffsets, matchOff |-> 0, matchLen |-> 0,
         searchDepth |-> hcSearchDepthByLevel[ClampLevel(lvl) + 1], skipLeft |-> 0,
         running |-> TRUE, emitted |-> <<>>],
        advance(hcInit(in, dict), 0, NoOffsets, FALSE,
                hcSearchDepthByLevel[ClampLevel(lvl) + 1]))

\* No encodable match: the literal run grows
HcLiteral(c) ==
    HcAdvanced([c EXCEPT !.literalLen = c.literalLen + 1],
               advance(c.h, 0, c.bestOffsetByLen, FALSE, c.searchDepth))

\* The pending literals and the match are written: on an error the run ends,
\* else advance is called with skip set, and is in its loop over the prevLen - 1
\* positions the match covers
HcEmitted(c, o, prevLen) ==
    IF o.err # ErrNone THEN [c EXCEPT !.o = o, !.running = FALSE]
    ELSE [c EXCEPT !.o = o, !.literalLen = 0,
                   !.skipLeft = IF prevLen > 1 THEN prevLen - 1 ELSE 0]

\* The call of encodeLookbackMatch at the input position c.h.bufPos: the
\* literals pending and the output written before it, the match advance
\* returned, the match findBetterMatch left and the table it chose from
EmitRecord(c, better) ==
    [at |-> c.h.bufPos, literalLen |-> c.literalLen, outPos |-> Len(c.o.data),
     foundLen |-> c.matchLen, foundOff |-> c.matchOff,
     matchLen |-> better.matchLen, matchOff |-> better.matchOff,
     bestOffsetByLen |-> c.bestOffsetByLen]

\* The frame with the call of encodeLookbackMatch added to the history of the
\* run (emitted is not a variable of the source: it records the calls made)
HcRecorded(c, o1, better) ==
    IF o1.err # ErrNone THEN c
    ELSE [c EXCEPT !.emitted = Append(c.emitted, EmitRecord(c, better))]

\* The match findBetterMatch settled on is emitted after the pending literals
HcEmit(c, better) ==
    HcEmitted(HcRecorded(c, encodeLiteralRun(c.o, c.h.src, c.literalStart, c.literalLen),
                         better),
              encodeLookbackMatch(
                  encodeLiteralRun(c.o, c.h.src, c.literalStart, c.literalLen),
                  better.matchLen, better.matchOff, c.literalLen),
              better.matchLen)

\* The loop body once literalStart is set and the match is filtered
HcFiltered(c, filtered) ==
    IF filtered = 0 THEN HcLiteral(c)
    ELSE HcEmit(c, findBetterMatch(c.bestOffsetByLen, filtered, c.matchOff))

\* One pass of the loop of compress999NoAlloc (state.bufSize > 0)
HcStep(c) ==
    HcFiltered([c EXCEPT !.literalStart = IF c.literalLen = 0 THEN c.h.bufPos
                                          ELSE c.literalStart],
               FilterMatch(c.matchLen, c.matchOff, c.literalLen, Len(c.o.data)))

\* compress999NoAlloc after its loop: the last literals and the end marker
HcFinishUnmarked(c) ==
    encodeLiteralRun(c.o, c.h.src, c.literalStart, c.literalLen)

HcFinish(c) ==
    LET o1 == encodeLiteralRun(c.o, c.h.src, c.literalStart, c.literalLen)
    IN  writeByte(writeByte(writeByte(o1, BitOr(markerM4, 1)), 0), 0)

----------------------------------------------------------------------------
(* The actions of Compress. *)

\* Compress: the level after level = max(level, 0) and, above 1, min(level, 9)
CompressLevelModulo(lvl) == lvl % 10

CompressLevel(lvl) ==
    LET l0 == Max(lvl, 0)
    IN  IF l0 <= 1 THEN l0 ELSE Min(l0, 9)

\* What Compress has returned
CmpIdle == [returned |-> FALSE, out |-> NilSlice, err |-> ErrNone]

CmpReturn(out, err) == [returned |-> TRUE, out |-> out, err |-> err]

\* compress1xFastCore: its loop, run to the break
RECURSIVE FastRun(_, _)
FastRun(f, in) ==
    IF f.running THEN FastRun(FastStep(f, in), in) ELSE f

\* compress1xFast
compress1xFast(in) == FastFinish(FastRun(FastEnter(in), in), in)

\* One pass of the loop of compress999NoAlloc, the call of advance behind an
\* emitted match included
HcPass(c) ==
    LET c1 == HcStep(c)
    IN  IF ~c1.running \/ c1.literalLen > 0 THEN c1
        ELSE HcAdvanced([c1 EXCEPT !.skipLeft = 0],
                        advance(c1.h, c1.skipLeft + 1, c1.bestOffsetByLen, TRUE,
                                c1.searchDepth))

\* compress999NoAlloc: its loop, run to the end of the input or to an error
RECURSIVE HcRun(_)
HcRun(c) ==
    IF c.running /\ c.h.bufSize > 0 THEN HcRun(HcPass(c)) ELSE c

\* compress999Level: what it returns
\* compress999Level with the dictionary acquireCompressorDict returned
compress999LevelOn(in, dict, lvl) ==
    LET o == HcFinish(HcRun(HcEnter(in, dict, lvl)))
    IN  IF o.err # ErrNone THEN CmpReturn(NilSlice, o.err)
        ELSE CmpReturn(SliceOf(o.data), ErrNone)

compress999Level(in, lvl) == compress999LevelOn(in, FreshDict, lvl)

\* Compress1X999Level
Compress1X999Level(in, lvl) == compress999Level(in, lvl)

\* Compress with opts.Level = lvl: what it returns
Compress(src, lvl) ==
    IF CompressLevel(lvl) <= 1 THEN CmpReturn(SliceOf(compress1xFast(src)), ErrNone)
    ELSE compress999Level(src, CompressLevel(lvl))

\* Compress up to the loop of the compressor the level selects
CompressEnter ==
    /\ pc = "compress_call"
    /\ IF CompressLevel(level) <= 1
       THEN /\ fast' = FastEnter(inBuf)
            /\ hc' = hc
            /\ pc' = IF fast'.running THEN "fast_loop" ELSE "fast_tail"
       ELSE /\ hc' = HcEnter(inBuf, FreshDict, CompressLevel(level))
            /\ fast' = fast
            /\ pc' = IF hc'.running /\ hc'.h.bufSize > 0 THEN "hc_loop" ELSE "hc_tail"
    /\ UNCHANGED <<pool, cb, inBuf, level, cmp, dec, api>>

\* Compress1X999Level down to the loop of compress999NoAlloc
Compress1X999Enter ==
    /\ pc = "hc_call"
    /\ hc' = HcEnter(inBuf, FreshDict, level)
    /\ pc' = IF hc'.running /\ hc'.h.bufSize > 0 THEN "hc_loop" ELSE "hc_tail"
    /\ UNCHANGED <<pool, cb, inBuf, level, fast, cmp, dec, api>>

\* One pass of the loop of compress1xFastCore
FastIterate ==
    /\ pc = "fast_loop"
    /\ fast' = FastStep(fast, inBuf)
    /\ pc' = IF fast'.running THEN "fast_loop" ELSE "fast_tail"
    /\ UNCHANGED <<pool, cb, inBuf, level, hc, cmp, dec, api>>

\* compress1xFast after the parse, and the return of Compress
FastReturn ==
    /\ pc = "fast_tail"
    /\ cmp' = CmpReturn(SliceOf(FastFinish(fast, inBuf)), ErrNone)
    /\ pc' = "compressed"
    /\ UNCHANGED <<pool, cb, inBuf, level, fast, hc, dec, api>>

\* One pass of the loop of compress999NoAlloc: to its end when the literal run
\* grows, into the call of advance that follows a match when one is emitted
HcIterate ==
    /\ pc = "hc_loop"
    /\ hc' = HcStep(hc)
    /\ pc' = IF ~hc'.running THEN "hc_tail"
             ELSE IF hc'.literalLen = 0 THEN "hc_skip"
             ELSE IF hc'.h.bufSize > 0 THEN "hc_loop"
             ELSE "hc_tail"
    /\ UNCHANGED <<pool, cb, inBuf, level, fast, cmp, dec, api>>

\* One pass of the loop of advance over the positions of the emitted match
HcSkip ==
    /\ pc = "hc_skip"
    /\ hc.skipLeft > 0
    /\ hc' = [hc EXCEPT !.h = SkipOne(hc.h), !.skipLeft = hc.skipLeft - 1]
    /\ pc' = "hc_skip"
    /\ UNCHANGED <<pool, cb, inBuf, level, fast, cmp, dec, api>>

\* advance after that loop, to the end of the pass of compress999NoAlloc
HcSearch ==
    /\ pc = "hc_skip"
    /\ hc.skipLeft = 0
    /\ hc' = HcAdvanced(hc, AdvanceAfterSkip(hc.h, hc.bestOffsetByLen, hc.searchDepth))
    /\ pc' = IF hc'.h.bufSize > 0 THEN "hc_loop" ELSE "hc_tail"
    /\ UNCHANGED <<pool, cb, inBuf, level, fast, cmp, dec, api>>

\* compress999NoAlloc after its loop, compress999Level and the return of Compress
HcReturn ==
    /\ pc = "hc_tail"
    /\ LET o == HcFinish(hc)
       IN  cmp' = IF o.err # ErrNone THEN CmpReturn(NilSlice, o.err)
                  ELSE CmpReturn(SliceOf(o.data), ErrNone)
    /\ pc' = "compressed"
    /\ UNCHANGED <<pool, cb, inBuf, level, fast, hc, dec, api>>

CompressNext ==
    \/ CompressEnter
    \/ FastIterate
    \/ FastReturn
    \/ HcIterate
    \/ HcSkip
    \/ HcSearch
    \/ HcReturn

----------------------------------------------------------------------------
(* A direct call of copyBackRef, one step of its loop at a time. *)

CopyCall(dst, outputPos, dist, length) ==
    [dst |-> dst, dst0 |-> dst, outputPos |-> outputPos, dist |-> dist,
     length |-> length, copied |-> 0, returned |-> FALSE, err |-> ErrNone]

CopyIdle == CopyCall(<<>>, 0, 0, 0)

\* copyBackRef down to its loop: the checks, the bulk copy or the seed
CopyBackRefEnter ==
    /\ pc = "copy_call"
    /\ LET err == CopyCheck(Len(cb.dst), cb.outputPos, cb.dist, cb.length)
       IN  IF err # ErrNone
           THEN /\ cb' = [cb EXCEPT !.returned = TRUE, !.err = err]
                /\ pc' = "copy_done"
           ELSE IF cb.dist >= cb.length
           THEN /\ cb' = [cb EXCEPT !.returned = TRUE,
                                    !.dst = BulkCopy(cb.dst, cb.outputPos, cb.dist, cb.length)]
                /\ pc' = "copy_done"
           ELSE /\ cb' = [cb EXCEPT !.dst = SeedChunk(cb.dst, cb.outputPos, cb.dist),
                                    !.copied = cb.dist]
                /\ pc' = "copy_loop"
    /\ UNCHANGED <<pool, inBuf, level, fast, hc, cmp, dec, api>>

\* for copied < length: the test of the loop condition, and the return behind the loop
CopyBackRefTest ==
    /\ pc = "copy_loop"
    /\ IF cb.copied < cb.length
       THEN /\ cb' = cb
            /\ pc' = "copy_pass"
       ELSE /\ cb' = [cb EXCEPT !.returned = TRUE]
            /\ pc' = "copy_done"
    /\ UNCHANGED <<pool, inBuf, level, fast, hc, cmp, dec, api>>

\* One pass of the loop: n := copy(...); copied += n
CopyBackRefDouble ==
    /\ pc = "copy_pass"
    /\ cb' = [cb EXCEPT !.dst = DoubleStep(cb.dst, cb.outputPos, cb.copied, cb.length),
                        !.copied = cb.copied + DoubleCount(cb.copied, cb.length)]
    /\ pc' = "copy_loop"
    /\ UNCHANGED <<pool, inBuf, level, fast, hc, cmp, dec, api>>

CopyNext ==
    \/ CopyBackRefEnter
    \/ CopyBackRefTest
    \/ CopyBackRefDouble

----------------------------------------------------------------------------
(* The pools of the high-compression compressor and the calls that share them. *)

\* The frame of one goroutine's call of compress999Level: dict and temp are
\* the pooled objects it holds (0: none), pooled tells whether dict came out
\* of the pool
CallIdle ==
    [pc |-> "idle", in |-> <<>>, lvl |-> 0, dict |-> 0, temp |-> 0, size |-> 0,
     pooled |-> FALSE, outLen |-> 0, err |-> ErrNone, out |-> NilSlice]

\* hcDictPool and hcCompressBufferPool hold object identities; dictMem and
\* bufMem are the heap: the tables of each dictionary and the backing array of
\* each buffer ever allocated
PoolIdle ==
    [dicts |-> {}, bufs |-> {}, dictMem |-> <<>>, bufMem |-> <<>>, started |-> 0,
     calls |-> [g \in 1 .. Goroutines |-> CallIdle]]

\* sync.Pool.Get hands out an item without keeping it in the pool
PoolKeep(items, x) == items

PoolRemove(items, x) == items \ {x}

\* sync.Pool.Put
PoolPut(items, x) == items \cup {x}

\* What sync.Pool.Get may return: any pooled item, or nothing (0)
PoolGet(items) == items \cup {0}

\* The tables a run of compress999NoAlloc leaves in its dictionary
DictAfter(c) ==
    [head3 |-> c.h.head3, chain |-> c.h.chain, slotKey |-> c.h.slotKey,
     bestLen |-> c.h.bestLen, buffer |-> c.h.buffer]

\* The backing array after a run wrote the bytes written at its start
Overwrite(data, written) ==
    written \o SubSeq(data, Len(written) + 1, Len(data))

(* The inputs of the checks. *)

\* The bytes short inputs are made of
Alphabet == {65, 66}

\* n bytes b
Run(b, n) == [i \in 1 .. n |-> b]

\* Bytes that differ from each other and from the alphabet
Ramp(n) == [i \in 1 .. n |-> 96 + i]

\* Inputs long enough for the fast parser to find matches: runs that end in
\* nothing, in a few literals and in many, a run whose match needs a length
\* extension, and a short match between literals
LongInputs ==
    { Run(65, LongRun),
      Run(65, LongRun) \o <<66>>,
      Run(65, LongRun) \o Ramp(4),
      Run(65, LongRun) \o Ramp(LongRun),
      Run(65, 2 * LongRun + 4),
      <<48, 49, 50, 51, 65, 66, 67, 68, 69, 65, 66, 67, 68, 90>> \o Ramp(LongRun - 9) }

Inputs == SeqsUpTo(Alphabet, MaxLen) \cup LongInputs

Levels == (0 - LevelSlack) .. (9 + LevelSlack)

\* The inputs and levels of the concurrent calls
PoolInputs ==
    { Run(65, MaxLen), <<65, 66, 65, 66, 65, 66, 65>> }

PoolLevels == {0, 9}

\* What follows a stream in a longer buffer
Suffixes == { <<0>>, <<17, 0, 0>>, <<65, 66>> }

\* A call of DecompressN on the stream Compress returned: as it is with any
\* output length up to one more than the input's, followed by other bytes, or
\* cut short by up to MaxCut bytes
Decodes(c, n) ==
    { ApiCall(c, FALSE, m) : m \in 0 .. (n + 1) }
    \cup { ApiCall(c \o s, FALSE, n) : s \in Suffixes }
    \cup { ApiCall(Slice(c, 0, Len(c) - k), FALSE, n) : k \in 1 .. Min(MaxCut, Len(c) - 1) }

\* The caller passes the compressed stream on to DecompressN
CallDecompress ==
    /\ pc = "compressed"
    /\ cmp.err = ErrNone
    /\ \E a \in Decodes(cmp.out.data, Len(inBuf)) : api' = a
    /\ pc' = "dec_call"
    /\ UNCHANGED <<pool, cb, inBuf, level, fast, hc, cmp, dec>>

Init ==
    /\ pc = "compress_call"
    /\ inBuf \in Inputs
    /\ level \in Levels
    /\ fast = FastIdle
    /\ hc = HcIdle
    /\ cmp = CmpIdle
    /\ dec = DecIdle
    /\ api = ApiIdle
    /\ cb = CopyIdle
    /\ pool = PoolIdle

Next ==
    \/ CompressNext
    \/ CallDecompress
    \/ DecodeNext

\* Compress, then DecompressN on what it returned
Spec == Init /\ [][Next]_vars

InitHc ==
    /\ pc = "hc_call"
    /\ inBuf \in Inputs
    /\ level \in Levels
    /\ fast = FastIdle
    /\ hc = HcIdle
    /\ cmp = CmpIdle
    /\ dec = DecIdle
    /\ api = ApiIdle
    /\ cb = CopyIdle
    /\ pool = PoolIdle

HcNext ==
    \/ Compress1X999Enter
    \/ HcIterate
    \/ HcSkip
    \/ HcSearch
    \/ HcReturn

\* A call of Compress1X999Level
SpecHc == InitHc /\ [][HcNext]_vars

\* The pool state with the frame of goroutine g replaced
WithCall(p, g, c) == [p EXCEPT !.calls[g] = c]

\* A goroutine calls compress999Level: the level is clamped
PoolCall(g) ==
    /\ pc = "pool"
    /\ pool.calls[g].pc \in {"idle", "returned"}
    /\ pool.started < MaxCalls
    /\ \E in \in PoolInputs, lvl \in PoolLevels :
         pool' = [WithCall(pool, g,
                     [CallIdle EXCEPT !.pc = "acquire_dict", !.in = in,
                                      !.lvl = ClampLevel(lvl),
                                      !.size = maxCompressedSize(Len(in))])
                  EXCEPT !.started = pool.started + 1]
    /\ UNCHANGED <<pc, cb, inBuf, level, fast, hc, cmp, dec, api>>

\* acquireCompressorDict: a pooled dictionary, or a new one from the pool's New
acquireCompressorDict(g) ==
    /\ pc = "pool"
    /\ pool.calls[g].pc = "acquire_dict"
    /\ \E got \in PoolGet(pool.dicts) :
         IF got # 0
         THEN pool' = [WithCall(pool, g,
                          [pool.calls[g] EXCEPT !.pc = "acquire_buf", !.dict = got,
                                                !.pooled = TRUE])
                       EXCEPT !.dicts = PoolRemove(pool.dicts, got)]
         ELSE pool' = [WithCall(pool, g,
                          [pool.calls[g] EXCEPT !.pc = "acquire_buf",
                                                !.dict = Len(pool.dictMem) + 1])
                       EXCEPT !.dictMem = Append(pool.dictMem, FreshDict)]
    /\ UNCHANGED <<pc, cb, inBuf, level, fast, hc, cmp, dec, api>>

\* acquireCompressBuffer: a pooled buffer that is large enough, else a new one
\* (a pooled buffer that is too small is dropped)
acquireCompressBuffer(g) ==
    /\ pc = "pool"
    /\ pool.calls[g].pc = "acquire_buf"
    /\ \E got \in PoolGet(pool.bufs) :
         IF got # 0 /\ pool.bufMem[got].cap >= pool.calls[g].size
         THEN pool' = [WithCall(pool, g,
                          [pool.calls[g] EXCEPT !.pc = "encode", !.temp = got])
                       EXCEPT !.bufs = PoolRemove(pool.bufs, got)]
         ELSE pool' = [WithCall(pool, g,
                          [pool.calls[g] EXCEPT !.pc = "encode",
                                                !.temp = Len(pool.bufMem) + 1])
                       EXCEPT !.bufs = IF got # 0 THEN PoolRemove(pool.bufs, got)
                                       ELSE pool.bufs,
                              !.bufMem = Append(pool.bufMem,
                                            [cap |-> pool.calls[g].size,
                                             data |-> Zeros(pool.calls[g].size)])]
    /\ UNCHANGED <<pc, cb, inBuf, level, fast, hc, cmp, dec, api>>

\* compress999NoAlloc on the held dictionary and the held buffer
compress999NoAlloc(g) ==
    /\ pc = "pool"
    /\ pool.calls[g].pc = "encode"
    /\ LET call == pool.calls[g]
           c == HcRun(HcEnter(call.in, pool.dictMem[call.dict], call.lvl))
           o == HcFinish(c)
       IN  pool' = [WithCall(pool, g,
                       [call EXCEPT !.pc = "copy_out", !.outLen = Len(o.data),
                                    !.err = o.err])
                    EXCEPT !.dictMem[call.dict] = DictAfter(c),
                           !.bufMem[call.temp].data =
                               Overwrite(pool.bufMem[call.temp].data, o.data)]
    /\ UNCHANGED <<pc, cb, inBuf, level, fast, hc, cmp, dec, api>>

\* out := make([]byte, outLen); copy(out, temp.data[:outLen])
PoolCopyOut(g) ==
    /\ pc = "pool"
    /\ pool.calls[g].pc = "copy_out"
    /\ LET call == pool.calls[g]
       IN  pool' = WithCall(pool, g,
                      [call EXCEPT !.pc = "release_buf",
                                   !.out = IF call.err # ErrNone THEN NilSlice
                                           ELSE SliceOf(Slice(pool.bufMem[call.temp].data,
                                                              0, call.outLen))])
    /\ UNCHANGED <<pc, cb, inBuf, level, fast, hc, cmp, dec, api>>

\* The deferred releaseCompressBuffer
releaseCompressBuffer(g) ==
    /\ pc = "pool"
    /\ pool.calls[g].pc = "release_buf"
    /\ pool' = [WithCall(pool, g,
                   [pool.calls[g] EXCEPT !.pc = "release_dict", !.temp = 0])
                EXCEPT !.bufs = PoolPut(pool.bufs, pool.calls[g].temp)]
    /\ UNCHANGED <<pc, cb, inBuf, level, fast, hc, cmp, dec, api>>

\* The deferred releaseCompressorDict, and the return
releaseCompressorDict(g) ==
    /\ pc = "pool"
    /\ pool.calls[g].pc = "release_dict"
    /\ pool' = [WithCall(pool, g,
                   [pool.calls[g] EXCEPT !.pc = "returned", !.dict = 0])
                EXCEPT !.dicts = PoolPut(pool.dicts, pool.calls[g].dict)]
    /\ UNCHANGED <<pc, cb, inBuf, level, fast, hc, cmp, dec, api>>

InitPool ==
    /\ pc = "pool"
    /\ inBuf = <<>>
    /\ level = 0
    /\ fast = FastIdle
    /\ hc = HcIdle
    /\ cmp = CmpIdle
    /\ dec = DecIdle
    /\ api = ApiIdle
    /\ cb = CopyIdle
    /\ pool = PoolIdle

PoolNext ==
    \E g \in 1 .. Goroutines :
        \/ PoolCall(g)
        \/ acquireCompressorDict(g)
        \/ acquireCompressBuffer(g)
        \/ compress999NoAlloc(g)
        \/ PoolCopyOut(g)
        \/ releaseCompressBuffer(g)
        \/ releaseCompressorDict(g)

\* Goroutines calling compress999Level at once
SpecPool == InitPool /\ [][PoolNext]_vars

(* Compress and Decompress on inputs longer than the ring of the dictionary. *)

\* An input longer than the ring: a pair of bytes, zero bytes, and the pair
\* again, hcBufferSize + d bytes after the first, between two other bytes
RingInput(d) == <<88, 89>> \o Run(0, hcBufferSize + d - 3) \o <<81, 88, 89, 90>>

RingInputs == SeqsUpTo(Alphabet, MaxLen) \cup { RingInput(1) }

RingLevels == {9}

\* Compress(src, &CompressOptions{Level: level}) on a dictionary the pool made
RingCompress ==
    /\ pc = "ring_call"
    /\ cmp' = IF CompressLevel(level) <= 1
              THEN CmpReturn(SliceOf(compress1xFast(inBuf)), ErrNone)
              ELSE compress999LevelOn(inBuf, ZeroDict, CompressLevel(level))
    /\ pc' = "ring_compressed"
    /\ UNCHANGED <<pool, cb, inBuf, level, fast, hc, dec, api>>

\* Decompress(c, DefaultDecompressOptions(len(src)))
RingDecompress ==
    /\ pc = "ring_compressed"
    /\ cmp.err = ErrNone
    /\ api' = Decompress(cmp.out.data, Len(inBuf))
    /\ pc' = "dec_done"
    /\ UNCHANGED <<pool, cb, inBuf, level, fast, hc, cmp, dec>>

InitRing ==
    /\ pc = "ring_call"
    /\ inBuf \in RingInputs
    /\ level \in RingLevels
    /\ fast = FastIdle
    /\ hc = HcIdle
    /\ cmp = CmpIdle
    /\ dec = DecIdle
    /\ api = ApiIdle
    /\ cb = CopyIdle
    /\ pool = PoolIdle

\* DecompressN(c || s, DefaultDecompressOptions(len(src))) with other bytes s
\* behind the stream
RingDecompressN ==
    /\ pc = "ring_compressed"
    /\ cmp.err = ErrNone
    /\ \E s \in Suffixes : api' = Decompress(cmp.out.data \o s, Len(inBuf))
    /\ pc' = "dec_done"
    /\ UNCHANGED <<pool, cb, inBuf, level, fast, hc, cmp, dec>>

RingNext ==
    \/ RingCompress
    \/ RingDecompress
    \/ RingDecompressN

\* Compress at a high-compression level, then Decompress, on short inputs and
\* on an input longer than the ring
SpecRing == InitRing /\ [][RingNext]_vars

(* The parse of compress999NoAlloc on inputs longer than the ring. *)

\* An input with the bytes p at its start and again at the distance d, after
\* zero bytes and lits bytes that occur nowhere else
FarInput(p, d, lits) ==
    p \o Run(0, d - Len(p) - lits) \o SubSeq(<<81, 82, 83, 84>>, 1, lits) \o p \o <<90>>

\* Matches at the largest distance of each class their context allows, and one
\* beyond it; the largest distance of the window, and one beyond it
FarInputs ==
    { FarInput(<<65, 66>>, maxOffsetM1, 1), FarInput(<<65, 66>>, maxOffsetM1 + 1, 1),
      FarInput(<<65, 66, 67>>, maxOffsetMX + 1, 3),
      FarInput(<<65, 66, 67>>, maxOffsetMX, 4),
      FarInput(<<65, 66, 67>>, maxOffsetMX + 1, 4),
      FarInput(<<65, 66, 67, 68>>, hcMaxDist, 0),
      FarInput(<<65, 66, 67, 68>>, hcMaxDist + 1, 0) }

\* Ten bytes, their first nine again, and the ten again beyond maxOffsetM3 of
\* both: the chain of the last has a match of 9 before its match of 10
ShortenInput ==
    <<65, 66, 67, 68, 69, 70, 71, 72, 73, 74, 1>> \o Run(0, 9)
        \o <<65, 66, 67, 68, 69, 70, 71, 72, 73, 2>> \o Run(0, maxOffsetM3)
        \o <<65, 66, 67, 68, 69, 70, 71, 72, 73, 74, 3>>

ParseInputs ==
    SeqsUpTo(Alphabet, MaxLen) \cup FarInputs \cup { RingInput(1), ShortenInput }

ParseLevels == {1, 9}

\* compress999Level from its call to the end of the loop of compress999NoAlloc
ParseRun ==
    /\ pc = "parse_call"
    /\ hc' = HcRun(HcEnter(inBuf, FreshDict, level))
    /\ pc' = "parse_tail"
    /\ UNCHANGED <<pool, cb, inBuf, level, fast, cmp, dec, api>>

\* compress999NoAlloc after its loop, and the return of compress999Level
ParseReturn ==
    /\ pc = "parse_tail"
    /\ LET o == HcFinish(hc)
       IN  cmp' = IF o.err # ErrNone THEN CmpReturn(NilSlice, o.err)
                  ELSE CmpReturn(SliceOf(o.data), ErrNone)
    /\ pc' = "parse_done"
    /\ UNCHANGED <<pool, cb, inBuf, level, fast, hc, dec, api>>

InitParse ==
    /\ pc = "parse_call"
    /\ inBuf \in ParseInputs
    /\ level \in ParseLevels
    /\ fast = FastIdle
    /\ hc = HcIdle
    /\ cmp = CmpIdle
    /\ dec = DecIdle
    /\ api = ApiIdle
    /\ cb = CopyIdle
    /\ pool = PoolIdle

ParseNext ==
    \/ ParseRun
    \/ ParseReturn

\* Compress1X999Level on short inputs and on inputs longer than the ring
SpecParse == InitParse /\ [][ParseNext]_vars

(* One match through encodeLookbackMatch and the decoder. *)

\* Lengths, distances and preceding literal counts at the edges of the match
\* classes and of their zero-extended lengths
MatchLens ==
    { 2, minLenM2, maxLenM2, maxLenM4, maxLenM4 + 1, maxLenM3, maxLenM3 + 1,
      maxLenM4 + 255, maxLenM4 + 256, maxLenM3 + 255, maxLenM3 + 256,
      maxLenM3 + 510, maxLenM3 + 511 }

MatchDists ==
    { 1, 2, maxOffsetM1, maxOffsetM1 + 1, maxOffsetM2, maxOffsetM2 + 1, maxOffsetMX,
      maxOffsetMX + 1, maxOffsetM3, maxOffsetM3 + 1, 2 * maxOffsetM3, maxOffsetM4 }

MatchLiterals == {0, 1, 3, 4, 5}

\* The decoder state in which the instruction after lits literals is decoded:
\* after a run of 4 or more the stateBeginLoop case has fetched it, after 1..3
\* trailing literals stateMatchDone and stateMatchNext, after a match without
\* trailing literals stateMatchEnd
StateAfterLiterals(lits) ==
    IF lits >= 4 THEN stateFirstLiteralRun
    ELSE IF lits >= 1 THEN stateMatch
    ELSE stateBeginLoop

\* The decoder frame at the instruction that follows lits literals: the
\* match bytes are what is left of src, the output so far has dist bytes
DecoderAt(src, dist, length, lits) ==
    LET d == FetchInstruction(
                 [DecFrame(src, Zeros(dist + length)) EXCEPT !.outputOffset = dist])
    IN  [d EXCEPT !.state = StateAfterLiterals(lits),
                  !.trailingSourceByte = IF lits >= 4 THEN d.instructionByte ELSE 0]

\* encodeLookbackMatch(out, &outPos, matchLen, matchOff, lastLiteralLen)
MatchEncode ==
    /\ pc = "match_call"
    /\ hc' = [hc EXCEPT !.o = encodeLookbackMatch(hc.o, hc.matchLen, hc.matchOff,
                                                  hc.literalLen)]
    /\ pc' = "match_encoded"
    /\ UNCHANGED <<pool, cb, inBuf, level, fast, cmp, dec, api>>

\* The decoder arrives at the bytes of the match
MatchPlace ==
    /\ pc = "match_encoded"
    /\ hc.o.err = ErrNone
    /\ dec' = DecoderAt(hc.o.data, hc.matchOff, hc.matchLen, hc.literalLen)
    /\ pc' = "match_decode"
    /\ UNCHANGED <<pool, cb, inBuf, level, fast, hc, cmp, api>>

\* One pass of the decoder's loop, up to the end of the match
MatchDecode ==
    /\ pc = "match_decode"
    /\ dec' = DecodeStep(dec)
    /\ pc' = IF dec'.returned \/ dec'.state = stateMatchDone THEN "match_decoded"
             ELSE "match_decode"
    /\ UNCHANGED <<pool, cb, inBuf, level, fast, hc, cmp, api>>

InitMatch ==
    /\ pc = "match_call"
    /\ \E matchLen \in MatchLens, matchOff \in MatchDists, lits \in MatchLiterals :
           hc = [HcIdle EXCEPT !.o = OutBuffer(MaxMatchBytes), !.matchLen = matchLen,
                               !.matchOff = matchOff, !.literalLen = lits]
    /\ inBuf = <<>>
    /\ level = 0
    /\ fast = FastIdle
    /\ cmp = CmpIdle
    /\ dec = DecIdle
    /\ api = ApiIdle
    /\ cb = CopyIdle
    /\ pool = PoolIdle

MatchNext == MatchEncode \/ MatchPlace \/ MatchDecode

\* One match written by encodeLookbackMatch and read back by the decoder
SpecMatch == InitMatch /\ [][MatchNext]_vars

(* The zero-extension encoders on their own. *)

\* writeZeroByteLength(out, &outPos, length) on an empty buffer
ZeroWrite ==
    /\ pc = "zero_call"
    /\ hc' = [hc EXCEPT !.o = writeZeroByteLength(hc.o, hc.matchLen)]
    /\ pc' = "zero_written"
    /\ UNCHANGED <<pool, cb, inBuf, level, fast, cmp, dec, api>>

\* appendFastMultiple(out, t) on an empty slice
ZeroAppend ==
    /\ pc = "zero_written"
    /\ fast' = [fast EXCEPT !.out = appendFastMultiple(fast.out, hc.matchLen)]
    /\ pc' = "zero_appended"
    /\ UNCHANGED <<pool, cb, inBuf, level, hc, cmp, dec, api>>

InitZero ==
    /\ pc = "zero_call"
    /\ \E v \in 0 .. MaxExtended :
           hc = [HcIdle EXCEPT !.o = OutBuffer(MaxMatchBytes), !.matchLen = v]
    /\ inBuf = <<>>
    /\ level = 0
    /\ fast = FastIdle
    /\ cmp = CmpIdle
    /\ dec = DecIdle
    /\ api = ApiIdle
    /\ cb = CopyIdle
    /\ pool = PoolIdle

ZeroNext == ZeroWrite \/ ZeroAppend

\* A value through writeZeroByteLength and appendFastMultiple
SpecZero == InitZero /\ [][ZeroNext]_vars

\* The tokens the streams of a direct decode are made of
Tokens ==
    { <<17, 0, 0>>, <<18, 0, 0>>, <<17, 4, 0>>, <<0>>, <<1>>, <<16>>, <<32>>, <<64, 0>>,
      <<65, 0, 66>>, <<16, 1, 0, 0>>, <<21, 65, 66, 67, 68>>, <<2, 65, 66, 67, 68, 69>>, <<18, 65>>,
      <<0, 0, 0>>, <<32, 0, 0, 0>> }

RECURSIVE Streams(_)
Streams(n) ==
    IF n = 0 THEN { <<>> }
    ELSE Streams(n - 1) \cup { s \o t : s \in Streams(n - 1), t \in Tokens }

InitDecode ==
    /\ pc = "dec_call"
    /\ \E src \in Streams(MaxTokens), n \in (0 - 1) .. MaxOutLen, optsNil \in BOOLEAN :
           api = ApiCall(src, optsNil, n)
    /\ inBuf = <<>>
    /\ level = 0
    /\ fast = FastIdle
    /\ hc = HcIdle
    /\ cmp = CmpIdle
    /\ dec = DecIdle
    /\ cb = CopyIdle
    /\ pool = PoolIdle

\* A call of Decompress / DecompressN on arbitrary bytes
SpecDecode == InitDecode /\ [][DecodeNext]_vars

InitCopy ==
    /\ pc = "copy_call"
    /\ \E dst \in SeqsUpTo(Alphabet, MaxDst), outputPos \in 0 .. MaxDst,
          dist \in 0 .. (MaxDst + 1), length \in 0 .. (MaxDst + 1) :
           /\ outputPos <= Len(dst)
           /\ cb = CopyCall(dst, outputPos, dist, length)
    /\ inBuf = <<>>
    /\ level = 0
    /\ fast = FastIdle
    /\ hc = HcIdle
    /\ cmp = CmpIdle
    /\ dec = DecIdle
    /\ api = ApiIdle
    /\ pool = PoolIdle

\* A call of copyBackRef
SpecCopy == InitCopy /\ [][CopyNext]_vars

\* A call of copyBackRef that is not left suspended: the goroutine keeps running
SpecCopyFair == SpecCopy /\ WF_vars(CopyNext)

----------------------------------------------------------------------------
(* Round trips: Compress, then DecompressN on its stream. *)

\* p is the front of s
IsPrefix(p, s) == Len(p) <= Len(s) /\ SubSeq(s, 1, Len(p)) = p

\* The decode of the stream Compress returned for a level in 0..9 is over, and
\* was given the output length of the input
RoundTripDone ==
    /\ pc = "dec_done"
    /\ level \in 0 .. 9
    /\ api.OutLen = Len(inBuf)

\* C1: for every input and every level in 0..9 Compress succeeds, and
\* Decompress on the stream it returned, with OutLen the length of the input,
\* returns the input.
C1_RoundTrip ==
    /\ (cmp.returned /\ level \in 0 .. 9 => cmp.err = ErrNone /\ ~cmp.out.isNil)
    /\ (RoundTripDone /\ api.src = cmp.out.data
            => /\ api.decompress.err = ErrNone
               /\ ~api.decompress.out.isNil
               /\ api.decompress.out.data = inBuf)

\* C1 happens: a level 9 stream shorter than its input has been decoded back
C1_Witness ==
    /\ RoundTripDone /\ api.src = cmp.out.data
    /\ level = 9
    /\ Len(cmp.out.data) < Len(inBuf)
    /\ api.decompress.out.data = inBuf

\* C2: DecompressN on a compressed stream followed by any other bytes, with
\* OutLen the length of the input, returns the input and reports the length of
\* the stream alone as the bytes read.
C2_TrailingBytes ==
    RoundTripDone /\ IsPrefix(cmp.out.data, api.src)
        => /\ api.decompressN.err = ErrNone
           /\ api.decompressN.out.data = inBuf
           /\ api.decompressN.nRead = Len(cmp.out.data)

\* C2: with bytes behind the stream, DecompressN on Compress(x, L) followed by
\* a suffix of one byte or more, with OutLen = len(x), returns x and reports
\* nRead = len(c).
C2_SuffixNotConsumed ==
    RoundTripDone /\ IsPrefix(cmp.out.data, api.src)
                  /\ Len(api.src) > Len(cmp.out.data)
        => /\ api.decompressN.err = ErrNone
           /\ api.decompressN.out.data = inBuf
           /\ api.decompressN.nRead = Len(cmp.out.data)

\* C2 happens: a stream with two more bytes behind it was decoded
C2_Witness ==
    /\ RoundTripDone /\ IsPrefix(cmp.out.data, api.src)
    /\ Len(api.src) = Len(cmp.out.data) + 2
    /\ Len(inBuf) > 0
    /\ api.decompressN.out.data = inBuf
    /\ api.decompressN.nRead = Len(cmp.out.data)

\* C3: a decode never writes at an index of dst at or beyond OutLen, and on a
\* compressed stream whose input is longer than OutLen it fails with
\* ErrOutputOverrun or ErrInputOverrun and returns no output.
C3_OutputBound ==
    /\ (pc \in {"core_loop", "core_ret", "dec_done"}
            => /\ ~dec.panic
               /\ Len(dec.dst) = api.OutLen
               /\ dec.outputOffset <= api.OutLen)
    /\ (pc = "dec_done" /\ api.src = cmp.out.data /\ api.OutLen < Len(inBuf)
            => /\ api.decompress.err \in {ErrOutputOverrun, ErrInputOverrun}
               /\ api.decompress.out.isNil)

\* C3 happens: a match of a compressed stream did not fit the output
C3_Witness ==
    /\ pc = "dec_done" /\ api.src = cmp.out.data
    /\ api.OutLen > 0 /\ api.OutLen < Len(inBuf)
    /\ api.decompress.err = ErrOutputOverrun

\* C4: Decompress on a compressed stream of 4 bytes or more with its last k
\* bytes cut off, k in 1..min(32, len - 1), returns an error.
C4_Truncation ==
    (/\ RoundTripDone
     /\ Len(cmp.out.data) >= 4
     /\ IsPrefix(api.src, cmp.out.data)
     /\ Len(api.src) < Len(cmp.out.data)
     /\ Len(cmp.out.data) - Len(api.src) <= Min(32, Len(cmp.out.data) - 1))
        => api.decompress.err # ErrNone /\ api.decompress.out.isNil

\* C4 happens: a stream cut right behind its last match was refused
C4_Witness ==
    /\ RoundTripDone
    /\ Len(api.src) = Len(cmp.out.data) - 3
    /\ IsPrefix(api.src, cmp.out.data)
    /\ dec.state = stateMatchEnd
    /\ api.decompress.err = ErrUnexpectedEOF

----------------------------------------------------------------------------
(* The decoder on arbitrary bytes. *)

\* The frame is the one the terminator branch returns: the opcode is of the
\* farthest class, the two bytes behind it give a distance base of zero, and
\* the positions reported are the ones reached
AtTerminator(d) ==
    /\ d.state = stateMatch
    /\ d.instructionByte \in 16 .. 31
    /\ d.inputOffset >= 3
    /\ ((d.instructionByte \div 8) % 2) * 16384
         + ((At(d.src, d.inputOffset - 2) + 256 * At(d.src, d.inputOffset - 1)) \div 4) = 0
    /\ d.backRefDistance = 0
    /\ d.outWritten = d.outputOffset
    /\ d.inConsumed = d.inputOffset

\* C5: the decoder returns success only from the terminator branch; when the
\* input is exhausted anywhere else, the call fails.
C5_SuccessOnlyAtTerminator ==
    /\ (dec.returned /\ dec.err = ErrNone => ~dec.panic /\ AtTerminator(dec))
    /\ (dec.returned /\ dec.inputOffset >= Len(dec.src) /\ ~AtTerminator(dec)
            => dec.err # ErrNone)
    /\ (pc = "dec_done" /\ api.decompress.err = ErrNone
            => dec.returned /\ AtTerminator(dec))

\* C5 happens: the input ended behind a literal run, output was written, and
\* the call failed
C5_Witness ==
    /\ pc = "dec_done"
    /\ dec.returned
    /\ dec.inputOffset >= Len(dec.src)
    /\ dec.outputOffset > 0
    /\ ~AtTerminator(dec)
    /\ api.decompress.err = ErrUnexpectedEOF

\* C6 as the specification states it: the terminator branch returns success
\* only if the decoded length is exactly 3.
C6_StrictTerminator ==
    dec.returned /\ dec.err = ErrNone /\ AtTerminator(dec) => dec.matchLength = 3

\* The literal run announced by the first byte has its bytes in the input and
\* does not fit dst
FirstRunOverflows(d) ==
    /\ Len(d.src) > 0
    /\ At(d.src, 0) > 17
    /\ 1 + (At(d.src, 0) - 17) <= Len(d.src)
    /\ At(d.src, 0) - 17 > Len(d.dst)

\* The length field of a literal run of the main loop
LoopRunLength(d) ==
    IF d.instructionByte = 0
    THEN readZeroExtendedLength(d.src, d.inputOffset, Len(d.src), 15)
    ELSE [err |-> ErrNone, length |-> d.instructionByte, inputOffset |-> d.inputOffset]

\* The literal run of the main loop has its bytes in the input and does not fit dst
LoopRunOverflows(d) ==
    /\ d.state = stateBeginLoop
    /\ d.instructionByte < 16
    /\ LoopRunLength(d).err = ErrNone
    /\ LoopRunLength(d).inputOffset + LoopRunLength(d).length + 3 <= Len(d.src)
    /\ d.outputOffset + LoopRunLength(d).length + 3 > Len(d.dst)

\* The 1..3 literals behind a match are in the input and do not fit dst
TrailingOverflows(d) ==
    /\ d.state = stateMatchDone
    /\ d.trailingSourceByte % 4 > 0
    /\ d.inputOffset + (d.trailingSourceByte % 4) <= Len(d.src)
    /\ d.outputOffset + (d.trailingSourceByte % 4) > Len(d.dst)

\* The length of the match a failed copy was called with
FailedMatchLength(d, e) ==
    IF d.state = stateFirstLiteralRun THEN 3
    ELSE IF d.instructionByte < 16 THEN 2
    ELSE e.matchLength

\* The step from d to e decoded a match whose source is inside the output
\* and whose copy does not fit dst
MatchOverflows(d, e) ==
    /\ d.state \in {stateMatch, stateFirstLiteralRun}
    /\ e.returned /\ e.err # ErrNone
    /\ e.inputOffset > d.inputOffset
    /\ e.backRefDistance >= 1
    /\ e.outputOffset - e.backRefDistance >= 0
    /\ e.outputOffset + FailedMatchLength(d, e) > Len(e.dst)

\* C7 as the specification states it: a step that would write past the end of
\* dst while the input bytes it needs are there fails with ErrOutputOverrun.
C7_OutputOverrunReported ==
    [][ ( \/ pc = "core_entry" /\ FirstRunOverflows(dec)
          \/ pc = "core_loop" /\ LoopRunOverflows(dec)
          \/ pc = "core_loop" /\ TrailingOverflows(dec)
          \/ pc = "core_loop" /\ MatchOverflows(dec, dec') )
            => (dec'.returned /\ dec'.err = ErrOutputOverrun) ]_vars

\* C8: a failing decode reports no bytes written and none consumed, and
\* Decompress and DecompressN then return a nil slice, and nRead = 0.
C8_FailureSemantics ==
    /\ (dec.returned /\ dec.err # ErrNone
            => dec.outWritten = 0 /\ dec.inConsumed = 0)
    /\ (pc = "dec_done" /\ dec.returned /\ dec.err # ErrNone
            => api.decompress.err = dec.err /\ api.decompressN.err = dec.err)
    /\ (api.returned /\ api.decompress.err # ErrNone => api.decompress.out.isNil)
    /\ (api.returned /\ api.decompressN.err # ErrNone
            => api.decompressN.out.isNil /\ api.decompressN.nRead = 0)

\* C8 happens: a decode that had written output and read input failed
C8_Witness ==
    /\ pc = "dec_done"
    /\ dec.err # ErrNone
    /\ dec.outputOffset > 0 /\ dec.inputOffset > 0
    /\ api.decompressN.out.isNil
    /\ api.decompressN.nRead = 0

----------------------------------------------------------------------------
(* copyBackRef called directly. *)

\* The call is over
CopyDone == pc = "copy_done" /\ cb.returned

\* The call meets the preconditions of the copy
CopyInRange ==
    /\ cb.dist >= 1
    /\ cb.outputPos - cb.dist >= 0
    /\ cb.outputPos + cb.length <= Len(cb.dst0)

\* C9: within its preconditions copyBackRef leaves dst as the byte-by-byte copy
\* in increasing order does, and leaves the bytes outside
\* [outputPos, outputPos+length) as they were.
C9_EqualsByteByByte ==
    CopyDone /\ CopyInRange
        => /\ cb.err = ErrNone
           /\ cb.dst = ByteByByte(cb.dst0, cb.outputPos, cb.dist, 0, cb.length)
           /\ copyBackRef(cb.dst0, cb.outputPos, cb.dist, cb.length)
                = [err |-> ErrNone, dst |-> cb.dst]
           /\ Len(cb.dst) = Len(cb.dst0)
           /\ \A i \in 0 .. (Len(cb.dst0) - 1) :
                  (i < cb.outputPos \/ i >= cb.outputPos + cb.length)
                      => At(cb.dst, i) = At(cb.dst0, i)

\* C9 happens: a copy of 3 bytes at distance 2, from two bytes that differ,
\* has changed dst
C9_Witness ==
    /\ CopyDone /\ CopyInRange
    /\ cb.dist = 2 /\ cb.length = 3
    /\ At(cb.dst0, cb.outputPos - 2) # At(cb.dst0, cb.outputPos - 1)
    /\ At(cb.dst, cb.outputPos + 2) # At(cb.dst0, cb.outputPos + 2)

\* C10 as the specification states it: ErrLookBehindUnderrun when
\* outputPos - dist < 0, ErrOutputOverrun when outputPos + length > len(dst),
\* and dst unchanged in both cases.
C10_AsStated ==
    CopyDone
        => /\ (cb.outputPos - cb.dist < 0 => cb.err = ErrLookBehindUnderrun)
           /\ (cb.outputPos + cb.length > Len(cb.dst0) => cb.err = ErrOutputOverrun)
           /\ (cb.err # ErrNone => cb.dst = cb.dst0)

\* C10: copyBackRef fails with ErrLookBehindUnderrun when outputPos - dist < 0,
\* with ErrOutputOverrun when outputPos - dist >= 0 and
\* outputPos + length > len(dst), and leaves dst unchanged in both cases.
C10_CopyErrors ==
    CopyDone
        => /\ (cb.outputPos - cb.dist < 0 => cb.err = ErrLookBehindUnderrun)
           /\ (cb.outputPos - cb.dist >= 0 /\ cb.outputPos + cb.length > Len(cb.dst0)
                   => cb.err = ErrOutputOverrun)
           /\ (cb.err # ErrNone => cb.dst = cb.dst0)
           /\ copyBackRef(cb.dst0, cb.outputPos, cb.dist, cb.length).err = cb.err

\* C10 happens: a call that starts before dst and ends behind it has returned
C10_Witness ==
    /\ CopyDone
    /\ cb.outputPos - cb.dist < 0
    /\ cb.outputPos + cb.length > Len(cb.dst0)
    /\ cb.err = ErrLookBehindUnderrun
    /\ Len(cb.dst0) > 0
    /\ cb.dst = cb.dst0

\* The call has dist = 0, a length of 1 or more, and its copy ends inside dst
ZeroDistance ==
    /\ cb.dist = 0
    /\ cb.length >= 1
    /\ cb.outputPos + cb.length <= Len(cb.dst0)

\* C11 as the specification states it: a call with dist = 0 and length >= 1
\* whose copy ends inside dst terminates, with ErrLookBehindUnderrun.
C11_ZeroDistanceFails ==
    ZeroDistance ~> (CopyDone /\ cb.err = ErrLookBehindUnderrun)

----------------------------------------------------------------------------
(* The stream of Compress. *)

\* The last three bytes of a stream
LastThree(c) == SubSeq(c, Len(c) - 2, Len(c))

\* C12: for every input and every level Compress returns a stream of 3 bytes
\* or more whose last three bytes are 0x11 0x00 0x00.
C12_EndsWithTerminator ==
    cmp.returned
        => /\ cmp.err = ErrNone
           /\ ~cmp.out.isNil
           /\ Len(cmp.out.data) >= 3
           /\ LastThree(cmp.out.data) = <<17, 0, 0>>

\* C12 happens: a stream of the LZO1X-999 parser that is shorter than its
\* input has been returned, and ends with the three bytes
C12_Witness ==
    /\ cmp.returned
    /\ level >= 2
    /\ Len(cmp.out.data) > 3
    /\ Len(cmp.out.data) < Len(inBuf)
    /\ LastThree(cmp.out.data) = <<17, 0, 0>>

\* C13: Compress with a level below 0 returns the bytes Compress returns
\* with level 0, and with a level above 9 the bytes it returns with level 9.
C13_LevelClamping ==
    /\ (pc = "compressed" /\ level < 0 => cmp = Compress(inBuf, 0))
    /\ (pc = "compressed" /\ level > 9 => cmp = Compress(inBuf, 9))

\* C13 happens: Compress with a level above 9 has returned a stream with a
\* match in it, the stream of level 9
C13_Witness ==
    /\ pc = "compressed"
    /\ level > 9
    /\ cmp.err = ErrNone
    /\ Len(cmp.out.data) < Len(inBuf)
    /\ cmp.out.data = Compress(inBuf, 9).out.data

\* C14: Compress1X999Level fails at no level, returns below level 1 the bytes
\* it returns at level 1, and above level 9 the bytes it returns at level 9.
C14_Level999Clamping ==
    pc = "compressed"
        => /\ cmp.err = ErrNone
           /\ (level < 1 => cmp = Compress1X999Level(inBuf, 1))
           /\ (level > 9 => cmp = Compress1X999Level(inBuf, 9))

\* C14 happens: Compress1X999Level at a level below 1 has returned a stream
\* with a match in it, the stream of level 1
C14_Witness ==
    /\ pc = "compressed"
    /\ level < 1
    /\ cmp.err = ErrNone
    /\ Len(cmp.out.data) < Len(inBuf)
    /\ cmp.out.data = Compress1X999Level(inBuf, 1).out.data
    /\ fast = FastIdle

\* In the stepwise run on short inputs, at every step: the stream of the
\* LZO1X-999 compressor, end marker included, fits the inLen + inLen/16 + 64 + 3
\* bytes of its buffer, no write is refused and ErrCompressInternal is not
\* returned.
C15_FitsBuffer ==
    /\ (pc \in {"hc_loop", "hc_skip", "hc_tail", "compressed"}
            => /\ hc.o.err = ErrNone
               /\ Len(hc.o.data) <= hc.o.cap)
    /\ (pc = "hc_tail" => HcFinish(hc).err = ErrNone)
    /\ (pc = "compressed"
            => /\ cmp.err = ErrNone
               /\ Len(cmp.out.data) <= Len(inBuf) + (Len(inBuf) \div 16) + 64 + 3)

\* The compressor has returned a stream longer than its input
C15_Witness ==
    /\ pc = "compressed"
    /\ cmp.err = ErrNone
    /\ Len(inBuf) >= 4
    /\ Len(cmp.out.data) > Len(inBuf)

(* Concurrent calls of the high-compression compressor. *)

\* The calls between the acquire of a dictionary and its release
HoldsDict(g) == pool.calls[g].dict # 0

HoldsBuffer(g) == pool.calls[g].temp # 0

\* The call of goroutine g has just copied its result out of the buffer
PoolCallDone(g) == pool.calls[g].pc = "release_buf"

\* C16: under any interleaving of concurrent compress calls a pooled
\* dictionary or scratch buffer is held by at most one call between its acquire
\* and its release (and is not in the pool meanwhile), and each call returns
\* the bytes it returns when run alone
C16_PooledObjectsExclusive ==
    pc = "pool" =>
        /\ \A g1, g2 \in 1 .. Goroutines :
             g1 # g2 =>
                 /\ (HoldsDict(g1) /\ HoldsDict(g2)) =>
                        pool.calls[g1].dict # pool.calls[g2].dict
                 /\ (HoldsBuffer(g1) /\ HoldsBuffer(g2)) =>
                        pool.calls[g1].temp # pool.calls[g2].temp
        /\ \A g \in 1 .. Goroutines :
             /\ HoldsDict(g) => pool.calls[g].dict \notin pool.dicts
             /\ HoldsBuffer(g) => pool.calls[g].temp \notin pool.bufs
             /\ PoolCallDone(g) =>
                    /\ pool.calls[g].out = compress999Level(pool.calls[g].in, pool.calls[g].lvl).out
                    /\ pool.calls[g].err = compress999Level(pool.calls[g].in, pool.calls[g].lvl).err

\* A call that ran on a dictionary and a buffer other calls had used has its
\* result while another call, of another input, holds its own pair
C16_Witness ==
    /\ pc = "pool"
    /\ \E g1, g2 \in 1 .. Goroutines :
         /\ g1 # g2
         /\ pool.calls[g1].pc = "release_buf"
         /\ pool.calls[g1].pooled
         /\ pool.calls[g1].temp \in 1 .. Len(pool.bufMem) - 1
         /\ pool.calls[g1].out.data # <<>>
         /\ pool.calls[g2].pc \in {"encode", "copy_out"}
         /\ pool.calls[g2].in # pool.calls[g1].in

(* The instruction after a short initial run. *)

\* The decoder is about to decode the instruction byte that follows an
\* initial run of 1..3 literals (first byte 18..21), that byte is below 16 and
\* its second byte is there
AfterShortInitialRun(d) ==
    /\ Len(d.src) > 0
    /\ At(d.src, 0) \in 18 .. 21
    /\ d.state = stateFirstLiteralRun
    /\ d.inputOffset = (At(d.src, 0) - 17) + 2
    /\ d.instructionByte < 16
    /\ d.inputOffset < Len(d.src)

\* C17 as the specification states it: after an initial run of 1..3 literals
\* an instruction byte t < 16 is a short M1 match of length 2 at distance
\* 1 + (t>>2) + (next<<2).
C17_ShortInitialRunM1 ==
    [][ (pc = "core_loop" /\ AfterShortInitialRun(dec))
            => /\ dec'.backRefDistance =
                      1 + (dec.instructionByte \div 4) + (At(dec.src, dec.inputOffset) * 4)
               /\ dec'.err = ErrNone => dec'.outputOffset = dec.outputOffset + 2 ]_vars

(* encodeLookbackMatch against the decoder. *)

\* The triples the encoder's caller lets through
Encodable(matchLen, matchOff, lits) ==
    /\ matchOff >= 1
    /\ \/ matchLen = 2 /\ matchOff <= maxOffsetM1 /\ lits \in 1 .. 3
       \/ matchLen \in minLenM2 .. maxLenM2 /\ matchOff <= maxOffsetM2
       \/ matchLen = minLenM2 /\ matchOff \in (maxOffsetM2 + 1) .. maxOffsetMX /\ lits >= 4
       \/ matchLen >= minLenM2 /\ matchOff <= maxOffsetM4

\* C18: for every encodable (length, distance, preceding literals) the
\* decoder, in the state that follows that many literals, reads exactly the
\* bytes encodeLookbackMatch wrote and recovers the length and the distance,
\* with a trailing-literal count of 0
C18_MatchEncodingInverse ==
    Encodable(hc.matchLen, hc.matchOff, hc.literalLen) =>
        /\ pc = "match_encoded" => hc.o.err = ErrNone
        /\ pc = "match_decoded" =>
               /\ ~dec.returned
               /\ dec.state = stateMatchDone
               /\ dec.inputOffset = Len(hc.o.data)
               /\ dec.backRefDistance = hc.matchOff
               /\ dec.outputOffset = hc.matchOff + hc.matchLen
               /\ dec.trailingSourceByte % 4 = 0

\* A far match with a zero-extended length, after a literal run, was decoded
C18_Witness ==
    /\ pc = "match_decoded"
    /\ hc.matchLen > maxLenM4 + 255
    /\ hc.matchOff = maxOffsetM4
    /\ hc.literalLen >= 4
    /\ Len(hc.o.data) = 5
    /\ dec.outputOffset = hc.matchOff + hc.matchLen

(* Zero-extended lengths in the decoder. *)

\* The zero bytes of src from offset off on
RECURSIVE ZeroBytes(_, _)
ZeroBytes(src, off) ==
    IF off < Len(src) /\ At(src, off) = 0 THEN 1 + ZeroBytes(src, off + 1) ELSE 0

\* The decoder is about to decode an instruction whose length field is 0: a
\* literal run, an M3 match or an M4 match (or the terminator)
ZeroLiteralRun(d) == d.state = stateBeginLoop /\ d.instructionByte = 0

ZeroLengthM3(d) == d.state = stateMatch /\ d.instructionByte = markerM3

ZeroLengthM4(d) ==
    d.state = stateMatch /\ d.instructionByte \in {markerM4, markerM4 + 8}

\* 255 * k + b for the k zero bytes and the byte b that follows them
ExtendedBy(d) ==
    255 * ZeroBytes(d.src, d.inputOffset)
        + At(d.src, d.inputOffset + ZeroBytes(d.src, d.inputOffset))

\* C19: when the length field of an opcode is 0 the decoder consumes k zero
\* bytes and one nonzero byte b and adds 255 * k + b to the base of the class
\* (15 for literal runs, 31 for M3, 7 for M4); when the input ends before a
\* nonzero byte it fails with ErrInputOverrun
C19_ZeroExtendedLength ==
    [][ (pc = "core_loop" /\ (ZeroLiteralRun(dec) \/ ZeroLengthM3(dec) \/ ZeroLengthM4(dec)))
            => IF dec.inputOffset + ZeroBytes(dec.src, dec.inputOffset) >= Len(dec.src)
               THEN dec'.returned /\ dec'.err = ErrInputOverrun
               ELSE /\ ZeroLiteralRun(dec) => dec'.runLength = 15 + ExtendedBy(dec) + 3
                    /\ ZeroLengthM3(dec) => dec'.matchLength = 31 + ExtendedBy(dec) + 2
                    /\ ZeroLengthM4(dec) => dec'.matchLength = 7 + ExtendedBy(dec) + 2
                    /\ dec'.inputOffset >=
                           dec.inputOffset + ZeroBytes(dec.src, dec.inputOffset) + 1 ]_vars

\* An M3 match whose length took zero bytes and a nonzero byte was decoded
C19_Witness ==
    /\ pc \in {"core_loop", "core_ret"}
    /\ dec.instructionByte = markerM3
    /\ \E p \in 1 .. Len(dec.src) :
         /\ At(dec.src, p - 1) = markerM3
         /\ ZeroBytes(dec.src, p) >= 1
         /\ p + ZeroBytes(dec.src, p) < Len(dec.src)
         /\ dec.inputOffset >= p + ZeroBytes(dec.src, p) + 1
         /\ dec.matchLength =
                31 + 255 * ZeroBytes(dec.src, p) + At(dec.src, p + ZeroBytes(dec.src, p)) + 2

(* Zero-extension in the encoders. *)

\* Both encoders have written the value hc.matchLen
ZeroWritten == pc = "zero_appended" /\ hc.o.err = ErrNone

\* C20 as the specification states it: the encoder emits floor(v / 255)
\* zero bytes followed by one byte v mod 255.
C20_AsStated ==
    ZeroWritten =>
        /\ hc.o.data = Zeros(hc.matchLen \div 255) \o <<hc.matchLen % 255>>
        /\ fast.out = Zeros(hc.matchLen \div 255) \o <<hc.matchLen % 255>>

\* The zero bytes the encoders emit for v: one for every 255 that must be
\* taken off v to bring it to 255 or less
ZeroCount(v) == IF v <= 255 THEN 0 ELSE (v - 1) \div 255

\* C20: for every value v >= 0 the encoder emits k zero bytes followed by one
\* byte v - 255 * k, where k is the least count that leaves the byte at 255 or
\* less; the byte is nonzero for every v >= 1, and the decoder's
\* readZeroExtendedLength gives v back.
C20_ZeroExtension ==
    ZeroWritten =>
        /\ hc.o.data = Zeros(ZeroCount(hc.matchLen))
                           \o <<hc.matchLen - 255 * ZeroCount(hc.matchLen)>>
        /\ fast.out = hc.o.data
        /\ hc.matchLen >= 1 =>
               /\ hc.o.data[Len(hc.o.data)] \in 1 .. 255
               /\ readZeroExtendedLength(hc.o.data, 0, Len(hc.o.data), 0) =
                      [err |-> ErrNone, length |-> hc.matchLen,
                       inputOffset |-> Len(hc.o.data)]

\* A positive multiple of 255 above 255 was written: a zero byte, then 255
C20_Witness ==
    /\ ZeroWritten
    /\ hc.matchLen = 2 * 255
    /\ hc.o.data = <<0, 255>>
    /\ fast.out = <<0, 255>>

----------------------------------------------------------------------------
(* The matches the LZO1X-999 parser emits. *)

\* The match e can be written in the place of the stream it was emitted at
LegalInContext(e) ==
    /\ e.matchLen >= 2
    /\ 1 <= e.matchOff /\ e.matchOff <= hcMaxDist
    /\ ~(e.outPos = 0 /\ e.literalLen = 0)
    /\ (e.matchLen = 2 => e.matchOff <= maxOffsetM1 /\ e.literalLen \in 1 .. 3)
    /\ (e.matchLen = minLenM2 /\ e.matchOff > maxOffsetMX => e.literalLen < 4)

\* C21: every match handed to encodeLookbackMatch can be encoded where it
\* stands: a length-2 match lies within maxOffsetM1 and follows 1..3 literals,
\* a length-3 match farther than maxOffsetMX does not follow 4 or more
\* literals, no match is the first token, and every distance lies in
\* 1..0xBFFF, findBetterMatch included.
C21_EmittedMatchesLegal ==
    \A i \in 1 .. Len(hc.emitted) : LegalInContext(hc.emitted[i])

\* C21 happens: runs have emitted a match at the largest distance of the
\* window, or a length-2 match at the largest distance of its class after one
\* literal
C21_Witness ==
    /\ pc = "parse_done"
    /\ \E i \in 1 .. Len(hc.emitted) :
           \/ hc.emitted[i].matchOff = hcMaxDist
           \/ /\ hc.emitted[i].matchLen = 2
              /\ hc.emitted[i].matchOff = maxOffsetM1
              /\ hc.emitted[i].literalLen = 1

----------------------------------------------------------------------------
(* The chains of the 3-byte table during a run. *)

\* An input longer than the ring, with evictions behind literals and behind a
\* short match: three bytes, as many zero bytes as the ring has slots, and a
\* tail in which the three bytes occur twice
EvictInput ==
    <<1, 2, 3>> \o Run(0, hcBufferSize) \o <<1, 2, 3, 7, 1, 2, 3, 9, 10, 11>>

ChainInputs == SeqsUpTo(Alphabet, MaxLen) \cup { EvictInput }

ChainLevels == {9}

\* The passes of the loop of compress999NoAlloc after which the window of a
\* run over EvictInput is full, and its evictions begin
PrefixPasses == 28

\* The first n passes of the loop of compress999NoAlloc, or all it makes
RECURSIVE HcPasses(_, _)
HcPasses(c, n) ==
    IF n > 0 /\ c.running /\ c.h.bufSize > 0 THEN HcPasses(HcPass(c), n - 1) ELSE c

\* Compress1X999Level down to the loop of compress999NoAlloc, or to the end
\* of its first PrefixPasses passes
ChainEnter ==
    /\ pc = "hc_call"
    /\ \/ hc' = HcPasses(HcEnter(inBuf, FreshDict, level), PrefixPasses)
       \/ hc' = HcEnter(inBuf, FreshDict, level)
    /\ pc' = IF hc'.running /\ hc'.h.bufSize > 0 THEN "hc_loop" ELSE "hc_tail"
    /\ UNCHANGED <<pool, cb, inBuf, level, fast, cmp, dec, api>>

\* One pass of the loop of compress999NoAlloc, with the call of advance that
\* ends it: its loop over the positions of an emitted match, the insertion of
\* the next position, the search, the eviction and the next byte
ChainPass ==
    /\ pc = "hc_loop"
    /\ hc' = HcPass(hc)
    /\ pc' = IF hc'.running /\ hc'.h.bufSize > 0 THEN "hc_loop" ELSE "hc_tail"
    /\ UNCHANGED <<pool, cb, inBuf, level, fast, cmp, dec, api>>

InitChain ==
    /\ pc = "hc_call"
    /\ inBuf \in ChainInputs
    /\ level \in ChainLevels
    /\ fast = FastIdle
    /\ hc = HcIdle
    /\ cmp = CmpIdle
    /\ dec = DecIdle
    /\ api = ApiIdle
    /\ cb = CopyIdle
    /\ pool = PoolIdle

ChainNext ==
    \/ ChainEnter
    \/ ChainPass
    \/ HcReturn

\* Compress1X999Level on short inputs and on an input longer than the ring,
\* observed after every pass of the loop of compress999NoAlloc
SpecChain == InitChain /\ [][ChainNext]_vars

\* The positions of the input (and the one behind its end) advance has
\* inserted: windB counts them modulo the ring
Inserted(h) ==
    LET base == h.inPos - h.windSize
    IN  base + ((h.windB - base) % hcBufferSize)

\* The number of positions inserted and not evicted: the eviction that goes
\* with position p removes position p - hcMaxDist
LiveCount(h) == Min(Inserted(h), hcMaxDist)

\* The positions inserted after the one in the ring slot s (windB - 1 is the
\* slot of the last): the slot is live when there are fewer than LiveCount
SlotAge(h, s) == (h.windB - 1 - s) % hcBufferSize

\* The keys with a count that is not zero
CountedKeys(h) ==
    { k \in { pg * PageSize + o : pg \in DOMAIN h.chainSz, o \in 0 .. (PageSize - 1) } :
        Get(h.chainSz, k) # 0 }

\* The walk of a chain before its first node: the node to visit, the age a
\* node must exceed, and whether every node so far was a live slot of the key
ChainFrom(node) == [node |-> node, age |-> -1, ok |-> TRUE]

\* The walk over n more nodes of the chain of the key k: each is a live slot
\* indexed under k, inserted before the node that led to it
RECURSIVE WalkNodes(_, _, _, _)
WalkNodes(h, k, w, n) ==
    IF n <= 0 \/ ~w.ok THEN w
    ELSE IF n = 1
    THEN [node |-> Get(h.chain, w.node),
          age |-> SlotAge(h, w.node),
          ok |-> /\ 0 <= w.node /\ w.node < hcBufferSize
                 /\ SlotAge(h, w.node) > w.age
                 /\ SlotAge(h, w.node) < LiveCount(h)
                 /\ Get(h.slotKey, w.node) = k]
    ELSE LET w1 == WalkNodes(h, k, w, n \div 2)
         IN  IF w1.ok THEN WalkNodes(h, k, w1, n - (n \div 2)) ELSE w1

RECURSIVE SumCounts(_, _)
SumCounts(h, keys) ==
    IF keys = {} THEN 0
    ELSE LET k == CHOOSE x \in keys : TRUE
         IN  Get(h.chainSz, k) + SumCounts(h, keys \ {k})

\* For every key k the first chainSz[k] nodes reached from head[k] are
\* distinct live slots indexed under k, and the counts of all keys add up to
\* the number of live slots: no live slot is outside the chain of its key
ChainCountInvariant(h) ==
    /\ \A k \in CountedKeys(h) :
          /\ Get(h.chainSz, k) <= LiveCount(h)
          /\ WalkNodes(h, k, ChainFrom(Get(h.head3, k)), Get(h.chainSz, k)).ok
    /\ SumCounts(h, CountedKeys(h)) = LiveCount(h)

\* C22: during a run of the LZO1X-999 compressor, for every 3-byte key k,
\* chainSz[k] is the number of ring slots inserted under k and not yet evicted
\* (so it never underflows), and the first chainSz[k] nodes reached from
\* head[k] through chain are exactly those slots.
C22_ChainCount == ChainCountInvariant(hc.h)

\* A pass that emitted a match, after the ring has wrapped and slots have been
\* evicted, with a key that has several live slots
C22_Witness ==
    /\ pc = "hc_loop"
    /\ Len(hc.emitted) > 0
    /\ Inserted(hc.h) > hcBufferSize
    /\ hc.h.cycleCountdown = 0
    /\ \E k \in CountedKeys(hc.h) : Get(hc.h.chainSz, k) > 1

----------------------------------------------------------------------------
(* The positions advance steps over behind an emitted match. *)

\* A pass of the loop of advance over the positions of an emitted match
SkipStep ==
    /\ pc = "hc_skip" /\ pc' = "hc_skip"
    /\ hc.skipLeft > 0 /\ hc'.skipLeft = hc.skipLeft - 1

\* C23: behind an emitted match of length m > 1 advance steps through the
\* m - 1 positions the match covers and inserts each of them into the 3-byte
\* chain table and into the 2-byte head table, without searching: after the
\* step over a position the head of its 3-byte key and the head of its 2-byte
\* key are that position, and no match has been looked for.
C23_SkipInsertsBoth ==
    [][SkipStep =>
          /\ Get(hc'.h.head3, match3Key(hc.h.buffer, hc.h.windB)) = hc.h.windB
          /\ Get(hc'.h.slotKey, hc.h.windB) = match3Key(hc.h.buffer, hc.h.windB)
          /\ Get(hc'.h.head2, match2Key(hc.h.buffer, hc.h.windB)) = hc.h.windB + 1
          /\ hc'.matchLen = hc.matchLen /\ hc'.matchOff = hc.matchOff]_vars

\* The part of it the loop does: the insertion into the 3-byte chain table
C23_SkipInsertsChain ==
    [][SkipStep =>
          /\ Get(hc'.h.head3, match3Key(hc.h.buffer, hc.h.windB)) = hc.h.windB
          /\ Get(hc'.h.slotKey, hc.h.windB) = match3Key(hc.h.buffer, hc.h.windB)
          /\ hc'.h.head2 = hc.h.head2
          /\ hc'.matchLen = hc.matchLen /\ hc'.matchOff = hc.matchOff]_vars

----------------------------------------------------------------------------
(* The guard behind the ring. *)

\* The ring slot i was written by getByte in this run: init leaves windE at
\* the number of bytes it loaded, and every position inserted took one byte in
WrittenByGetByte(h, i) ==
    ((i - Min(Len(h.src), hcMaxMatchLen)) % hcBufferSize) < Min(Inserted(h), hcBufferSize)

\* C24: immediately after the initialization of a run and after every byte
\* taken in, the guard mirrors the first hcMaxMatchLen bytes of the ring:
\* buffer[hcBufferSize + i] = buffer[i] for every i < hcMaxMatchLen.
C24_AsStated ==
    hc.running =>
        \A i \in 0 .. (hcMaxMatchLen - 1) :
            Get(hc.h.buffer, hcBufferSize + i) = Get(hc.h.buffer, i)

\* The part about insertions: init copies the input into the ring and not into
\* the guard; after every byte getByte takes in, buffer[hcBufferSize + i] = buffer[i] for every
\* slot i < hcMaxMatchLen that getByte has written in this run.
C24_GuardMirrorsWritten ==
    \A i \in 0 .. (hcMaxMatchLen - 1) :
        WrittenByGetByte(hc.h, i) =>
            Get(hc.h.buffer, hcBufferSize + i) = Get(hc.h.buffer, i)

\* A byte of the input that getByte wrote into one of the first hcMaxMatchLen
\* slots of the ring, after the ring wrapped
C24_Witness ==
    /\ hc.running
    /\ \E i \in 0 .. (hcMaxMatchLen - 1) :
          WrittenByGetByte(hc.h, i) /\ Get(hc.h.buffer, i) # 0

----------------------------------------------------------------------------
(* The matches findBetterMatch changes. *)

\* findBetterMatch changed the match of the emitted record e
Shortened(e) == e.matchLen # e.foundLen \/ e.matchOff # e.foundOff

\* C25: whenever findBetterMatch changes the chosen match (L, off), the match
\* it leaves is a nonzero entry of bestOffsetByLen at the reduced length and
\* its offset is in a strictly smaller distance class: at most maxOffsetM2 for
\* a reduction to L - 1 or L - 2 out of a farther class, or at most
\* maxOffsetM3 for the final reduction to L - 1 out of the class beyond it.
C25_ShorteningLowersClass ==
    \A i \in 1 .. Len(hc.emitted) :
        LET e == hc.emitted[i]
        IN  Shortened(e) =>
                /\ e.matchOff # 0
                /\ e.matchOff = bestOffsetAt(e.bestOffsetByLen, e.matchLen)
                /\ \/ /\ e.matchLen \in {e.foundLen - 1, e.foundLen - 2}
                      /\ e.foundOff > maxOffsetM2 /\ e.matchOff <= maxOffsetM2
                   \/ /\ e.matchLen = e.foundLen - 1
                      /\ e.foundOff > maxOffsetM3 /\ e.matchOff <= maxOffsetM3

----------------------------------------------------------------------------
(* The fast parser written out: compress, with the two probes in sequence. *)

\* appendMultiple
RECURSIVE appendMultiple(_, _)
appendMultiple(out, t) ==
    IF t > 255 THEN appendMultiple(Append(out, 0), t - 255)
    ELSE Append(out, t % 256)

\* The literal run compress and its compress1xFast write in line: the header
\* and the literalCount bytes from literalStart
UnrolledLiteral(out, in, literalStart, literalCount) ==
    (IF Len(out) = 0 /\ literalCount <= 238
     THEN Append(out, (17 + literalCount) % 256)
     ELSE IF literalCount <= 3
     THEN SetAt(out, Len(out) - 2, BitOr(At(out, Len(out) - 2), literalCount % 256))
     ELSE IF literalCount <= 18
     THEN Append(out, (literalCount - 3) % 256)
     ELSE appendMultiple(Append(out, 0), literalCount - 18))
        \o Slice(in, literalStart, literalStart + literalCount)

\* findCandidate
findCandidate(dict, in, inputPos, dictIndex) ==
    LET matchPos == Get(dict, dictIndex) - 1
        matchOffset == inputPos - matchPos
    IN  IF matchPos < 0 THEN <<-1, 0>>
        ELSE IF inputPos = matchPos \/ (inputPos - matchPos) > maxOffsetM4 THEN <<-1, 0>>
        ELSE IF matchOffset <= maxOffsetM2 \/ At(in, matchPos + 3) = At(in, inputPos + 3)
        THEN <<matchPos, matchOffset>>
        ELSE <<-1, 0>>

\* tryMatch and the comparison of the first 3 bytes, for the candidate c
UnrolledTry(in, inputPos, c) ==
    /\ c[1] >= 0 /\ (c[2] <= maxOffsetM2 \/ At(in, c[1] + 3) = At(in, inputPos + 3))
    /\ At(in, c[1]) = At(in, inputPos)
    /\ At(in, c[1] + 1) = At(in, inputPos + 1)
    /\ At(in, c[1] + 2) = At(in, inputPos + 2)

\* for i = 3; i < 9; i++: the i and the inputPos the loop ends with (inputPos
\* is p + 3 before it)
RECURSIVE UnrolledShortLoop(_, _, _, _)
UnrolledShortLoop(in, matchPos, inputPos, i) ==
    IF i >= 9 THEN <<i, inputPos>>
    ELSE IF At(in, matchPos + i) # At(in, inputPos) THEN <<i, inputPos + 1>>
    ELSE UnrolledShortLoop(in, matchPos, inputPos + 1, i + 1)

\* for inputPos < inputLen && in[m] == in[inputPos]
RECURSIVE UnrolledLongLoop(_, _, _)
UnrolledLongLoop(in, m, inputPos) ==
    IF inputPos < Len(in) /\ At(in, m) = At(in, inputPos)
    THEN UnrolledLongLoop(in, m + 1, inputPos + 1)
    ELSE inputPos

\* The bytes of a match the short loop ended (i < 9)
UnrolledShortMatch(out, matchLen, matchOffset) ==
    IF matchOffset <= maxOffsetM2
    THEN out \o <<BitOr((matchLen - 1) * 32, BitAnd(matchOffset - 1, 7) * 4) % 256,
                  ((matchOffset - 1) \div 8) % 256>>
    ELSE IF matchOffset <= maxOffsetM3
    THEN out \o <<BitOr(markerM3, matchLen - 2) % 256,
                  (BitAnd(matchOffset - 1, 63) * 4) % 256,
                  ((matchOffset - 1) \div 64) % 256>>
    ELSE out \o <<BitOr(BitOr(markerM4, BitAnd(matchOffset - 16384, 16384) \div 2048),
                        matchLen - 2) % 256,
                  (BitAnd(matchOffset - 16384, 63) * 4) % 256,
                  ((matchOffset - 16384) \div 64) % 256>>

\* The bytes of a match of 9 bytes or more
UnrolledLongMatch(out, matchLen, matchOffset) ==
    IF matchOffset <= maxOffsetM3
    THEN (IF matchLen <= 33 THEN Append(out, BitOr(markerM3, matchLen - 2) % 256)
          ELSE appendMultiple(Append(out, markerM3 % 256), matchLen - 33))
             \o <<(BitAnd(matchOffset - 1, 63) * 4) % 256, ((matchOffset - 1) \div 64) % 256>>
    ELSE (IF matchLen <= maxLenM4
          THEN Append(out, BitOr(BitOr(markerM4, BitAnd(matchOffset - 16384, 16384) \div 2048),
                                 matchLen - 2) % 256)
          ELSE appendMultiple(
                   Append(out, BitOr(markerM4, BitAnd(matchOffset - 16384, 16384) \div 2048) % 256),
                   matchLen - maxLenM4))
             \o <<(BitAnd(matchOffset - 16384, 63) * 4) % 256,
                  ((matchOffset - 16384) \div 64) % 256>>

\* The frame of compress on entry
UnrolledFrame ==
    [dict |-> EmptyMap, literalStart |-> 0, inputPos |-> 4, out |-> <<>>,
     literalTailSize |-> 0, running |-> TRUE]

\* The body behind a probe that hit, which compress has once for each probe:
\* the slot is written, the pending literals and the match are emitted
UnrolledEmit(f, in, dictIndex, c) ==
    LET out1 == IF f.inputPos # f.literalStart
                THEN UnrolledLiteral(f.out, in, f.literalStart, f.inputPos - f.literalStart)
                ELSE f.out
        literalStart == f.inputPos
        short == UnrolledShortLoop(in, c[1], f.inputPos + 3, 3)
        inputPos == IF short[1] < 9 THEN short[2] - 1
                    ELSE UnrolledLongLoop(in, c[1] + maxLenM2 + 1, short[2])
        matchLen == inputPos - literalStart
    IN  [f EXCEPT !.dict = Put(f.dict, dictIndex, f.inputPos + 1),
                  !.out = IF short[1] < 9 THEN UnrolledShortMatch(out1, matchLen, c[2])
                          ELSE UnrolledLongMatch(out1, matchLen, c[2]),
                  !.inputPos = inputPos,
                  !.literalStart = inputPos]

\* One pass of the loop of compress: the first probe, the second, the literal
UnrolledStep(f, in) ==
    LET key == BitXor(BitXor(BitXor(At(in, f.inputPos + 3) * 64, At(in, f.inputPos + 2)) * 32,
                             At(in, f.inputPos + 1)) * 32,
                      At(in, f.inputPos))
        dictIndex == BitAnd((33 * key) \div 32, dictMask)
        second == BitXor(BitAnd(dictIndex, BitAnd(dictMask, 2047)), BitOr(dictHigh, 31))
        g == IF UnrolledTry(in, f.inputPos, findCandidate(f.dict, in, f.inputPos, dictIndex))
             THEN UnrolledEmit(f, in, dictIndex,
                               findCandidate(f.dict, in, f.inputPos, dictIndex))
             ELSE IF UnrolledTry(in, f.inputPos, findCandidate(f.dict, in, f.inputPos, second))
             THEN UnrolledEmit(f, in, second, findCandidate(f.dict, in, f.inputPos, second))
             ELSE [f EXCEPT !.dict = Put(f.dict, second, f.inputPos + 1),
                            !.inputPos = f.inputPos + 1
                                             + ((f.inputPos - f.literalStart) \div 32)]
    IN  IF g.inputPos >= Len(in) - maxLenM2 - 5
        THEN [g EXCEPT !.running = FALSE, !.literalTailSize = Len(in) - g.literalStart]
        ELSE g

\* What a style of the parser returns: out and literalTailSize
ParserResult(f) == [out |-> f.out, literalTailSize |-> f.literalTailSize]

\* n bytes in blocks of BlockLen equal bytes, no two blocks alike
BlockLen == 64

Blocks(n) == [i \in 1 .. n |-> 100 + ((i - 1) \div BlockLen)]

\* Two occurrences of the bytes p at the distance d, behind 4 bytes and with
\* blocks in between, and 14 other bytes at the end
StyleFar(p, d) ==
    <<1, 2, 3, 4>> \o p \o Blocks(d - Len(p)) \o p \o <<5, 6, 7, 8, 9, 10, 11, 12, 13, 14, 15, 16, 17, 18>>

\* n bytes that repeat the bytes p
Periodic(p, n) == [i \in 1 .. n |-> p[((i - 1) % Len(p)) + 1]]

StyleLens == {14, 19, 24, 40}

\* Inputs longer than 13 bytes: periodic ones, with matches at short
\* distances, and matches short and long in each distance class
StyleInputs ==
    { Periodic(p, n) : p \in (SeqsUpTo({65, 66, 67}, 4) \ {<<>>}), n \in StyleLens }
        \cup { in \in LongInputs : Len(in) > 13 }
        \cup { StyleFar(<<65, 66, 67, 68, 69>>, maxOffsetM2 + 1000),
               StyleFar(<<65, 66, 67, 68, 69>>, maxOffsetM3 + 1000),
               StyleFar(Ramp(12), maxOffsetM2 + 1000),
               StyleFar(Ramp(12), maxOffsetM3 + 1000),
               StyleFar(Ramp(40), maxOffsetM2 + 1000),
               StyleFar(Ramp(40), maxOffsetM3 + 1000) }

\* compress1xFastCore(in) and compress(in) down to their loops
StylesEnter ==
    /\ pc = "styles_call"
    /\ fast' = [FastFrame EXCEPT !.running = TRUE]
    /\ cmp' = UnrolledFrame
    /\ pc' = "styles_loop"
    /\ UNCHANGED <<pool, cb, inBuf, level, hc, dec, api>>

\* One pass of the loop of each style that has not left its loop
StylesPass ==
    /\ pc = "styles_loop"
    /\ fast' = IF fast.running THEN FastStep(fast, inBuf) ELSE fast
    /\ cmp' = IF cmp.running THEN UnrolledStep(cmp, inBuf) ELSE cmp
    /\ pc' = IF fast'.running \/ cmp'.running THEN "styles_loop" ELSE "styles_done"
    /\ UNCHANGED <<pool, cb, inBuf, level, hc, dec, api>>

InitStyles ==
    /\ pc = "styles_call"
    /\ inBuf \in StyleInputs
    /\ level = 1
    /\ fast = FastIdle
    /\ hc = HcIdle
    /\ cmp = CmpIdle
    /\ dec = DecIdle
    /\ api = ApiIdle
    /\ cb = CopyIdle
    /\ pool = PoolIdle

StylesNext ==
    \/ StylesEnter
    \/ StylesPass

\* The two styles of the fast parser on the same input, pass by pass
SpecStyles == InitStyles /\ [][StylesNext]_vars

\* C26: for every input longer than 13 bytes the two styles of the fast
\* LZO1X-1 parser, the loop over two probes with a shared body and the
\* unrolled duplicate, return the same output bytes and the same size of the
\* literal tail.
C26_StylesAgree ==
    pc = "styles_done" => ParserResult(fast) = ParserResult(cmp)

\* Both styles have parsed an input in which the second probe hit and a
\* match was emitted behind literals
C26_Witness ==
    /\ pc = "styles_done"
    /\ Len(inBuf) > 13
    /\ Len(cmp.out) > 0
    /\ cmp.literalTailSize < Len(inBuf)


----------------------------------------------------------------------------
(* The input ending right behind a literal run. *)

\* A step of the decoder that copied a literal run (the initial run, the run of
\* stateBeginLoop or the trailing literals of stateMatchDone) and returned
\* because no byte is left behind it.
RunEndsInput ==
    /\ \/ pc = "core_entry"
       \/ pc = "core_loop" /\ dec.state \in {stateBeginLoop, stateMatchDone}
    /\ dec'.returned /\ ~dec'.panic
    /\ dec'.outputOffset > dec.outputOffset
    /\ dec'.inputOffset >= Len(dec'.src)

\* C27: when the input ends immediately after a literal run (the initial run, a
\* run of the main loop, or the trailing literals of a match), so that no
\* instruction byte follows, the decode fails with ErrUnexpectedEOF.
C27_RunAtEndIsUnexpectedEOF ==
    [][RunEndsInput => dec'.err = ErrUnexpectedEOF]_vars

\* The same for the two runs outside stateBeginLoop.
C27_OtherRunsAtEnd ==
    [][RunEndsInput /\ ~(pc = "core_loop" /\ dec.state = stateBeginLoop)
           => dec'.err = ErrUnexpectedEOF]_vars


----------------------------------------------------------------------------
(* The matches the parser emits, against the input. *)

\* The match of record e copies bytes the input holds before its position.
TrueBackReference(in, e) ==
    /\ 1 <= e.matchOff
    /\ e.matchOff <= e.at
    /\ \A i \in 0 .. (e.matchLen - 1) :
           At(in, e.at + i) = At(in, e.at - e.matchOff + i)

\* C28: every match (offset, length) the parser emits at input position p is a
\* back-reference into input already parsed: 1 <= offset <= p and
\* in[p+i] = in[p-offset+i] for all i < length, also for a candidate of the
\* 2-byte head table after the ring has wrapped.
C28_EmittedMatchesCopyInput ==
    \A i \in 1 .. Len(hc.emitted) : TrueBackReference(inBuf, hc.emitted[i])


----------------------------------------------------------------------------
(* The decoder's loop comes to an end. *)

\* A call of Decompress / DecompressN whose steps are always taken: the decoder
\* is one sequential loop.
SpecDecodeFair == InitDecode /\ [][DecodeNext]_vars /\ WF_vars(DecodeNext)

\* The states a pass enters without consuming input (stateMatch, stateMatchEnd)
\* weigh 0, the others 1.
StateWeight(state) == IF state \in {stateMatch, stateMatchEnd} THEN 0 ELSE 1

\* Twice the input left, plus the weight of the state: what every pass lowers.
PassesLeft(d) == 2 * (Len(d.src) - d.inputOffset) + StateWeight(d.state)

\* A pass of the loop that does not return
LoopPass == pc = "core_loop" /\ pc' = "core_loop"

\* A pass that called copyBackRef: it went on to stateMatchDone, or returned one
\* of copyBackRef's errors.
CopyBackRefCalled ==
    /\ pc = "core_loop"
    /\ dec.state \in {stateMatch, stateFirstLiteralRun}
    /\ \/ ~dec'.returned /\ dec'.state = stateMatchDone
       \/ dec'.returned /\ dec'.err \in {ErrLookBehindUnderrun, ErrOutputOverrun}

\* C29: the decoder terminates on every finite input: a pass that consumes no
\* input (BeginLoop->Match, FirstLiteralRun->Match, MatchDone->MatchEnd,
\* MatchNext->Match) is followed by one that consumes a byte or returns, so the
\* passes are at most 2 * len(src) + 1; every distance passed to copyBackRef is
\* at least 1; and the call returns.
C29_DecoderTerminates ==
    /\ [](pc = "core_loop" => PassesLeft(dec) >= 0)
    /\ [][LoopPass => PassesLeft(dec') < PassesLeft(dec)]_vars
    /\ [][LoopPass /\ dec'.inputOffset = dec.inputOffset
              => /\ dec'.state \in {stateMatch, stateMatchEnd}
                 /\ dec.state \in {stateBeginLoop, stateFirstLiteralRun,
                                   stateMatchDone, stateMatchNext}]_vars
    /\ [][CopyBackRefCalled => dec'.backRefDistance >= 1]_vars
    /\ <>(pc = "dec_done")

\* A decode that has copied a back-reference and passed from stateMatchDone to
\* stateMatchEnd without consuming input.
C29_Witness ==
    /\ pc = "core_loop"
    /\ dec.state = stateMatchEnd
    /\ dec.backRefDistance >= 1
    /\ dec.outputOffset >= 3


----------------------------------------------------------------------------
(* A call on the dictionary another call has used. *)

\* The inputs of the call that leaves the dictionary behind
ReuseFirstInputs ==
    { Run(65, MaxLen), <<65, 66, 65, 66, 65, 66, 65>>,
      <<66, 65, 65, 66, 65, 65, 66, 65, 65, 66, 66, 66>>,
      Run(66, LongRun) \o Ramp(4),
      FarInput(<<65, 66, 67>>, maxOffsetMX + 1, 4) }

\* The inputs of the call that acquires it
ReuseInputs ==
    SeqsUpTo(Alphabet, MaxLen) \cup LongInputs
        \cup { FarInput(<<65, 66>>, maxOffsetM1, 1),
               FarInput(<<65, 66, 67>>, maxOffsetMX + 1, 4),
               FarInput(<<65, 66, 67, 68>>, hcMaxDist, 0) }

\* The dictionary a call of compress999Level runs on once acquireCompressorDict
\* got gotDict from the pool (0: nothing, the pool's New allocates)
CallDict(p, gotDict) == IF gotDict = 0 THEN FreshDict ELSE p.dictMem[gotDict]

\* The return values of compress999Level after the run c
CallReturn(c) ==
    LET o == HcFinish(c)
    IN  IF o.err # ErrNone THEN CmpReturn(NilSlice, o.err)
        ELSE CmpReturn(SliceOf(o.data), ErrNone)

\* The pools and the heap after goroutine g has made a whole call of
\* compress999Level(in, lvl): acquireCompressorDict (gotDict from the pool),
\* acquireCompressBuffer (gotBuf from the pool, dropped when too small), the
\* run c of compress999NoAlloc, the copy out, and the deferred
\* releaseCompressBuffer and releaseCompressorDict
PoolAfterCall(p, g, in, lvl, gotDict, gotBuf, c) ==
    LET size == maxCompressedSize(Len(in))
        dict == IF gotDict = 0 THEN Len(p.dictMem) + 1 ELSE gotDict
        dictMem1 == IF gotDict = 0 THEN Append(p.dictMem, FreshDict) ELSE p.dictMem
        dicts1 == IF gotDict = 0 THEN p.dicts ELSE PoolRemove(p.dicts, gotDict)
        fits == gotBuf # 0 /\ p.bufMem[gotBuf].cap >= size
        temp == IF fits THEN gotBuf ELSE Len(p.bufMem) + 1
        bufMem1 == IF fits THEN p.bufMem
                   ELSE Append(p.bufMem, [cap |-> size, data |-> Zeros(size)])
        bufs1 == IF gotBuf # 0 THEN PoolRemove(p.bufs, gotBuf) ELSE p.bufs
        o == HcFinish(c)
    IN  [p EXCEPT
            !.dicts = PoolPut(dicts1, dict),
            !.bufs = PoolPut(bufs1, temp),
            !.dictMem = [dictMem1 EXCEPT ![dict] = DictAfter(c)],
            !.bufMem = [bufMem1 EXCEPT
                           ![temp].data = Overwrite(bufMem1[temp].data, o.data)],
            !.started = p.started + 1,
            !.calls[g] = [CallIdle EXCEPT
                             !.pc = "returned", !.in = in, !.lvl = ClampLevel(lvl),
                             !.size = size, !.pooled = gotDict # 0,
                             !.outLen = Len(o.data), !.err = o.err,
                             !.out = IF o.err # ErrNone THEN NilSlice
                                     ELSE SliceOf(o.data)]]

\* compress999Level(y, 9) from its call to its return, both pools empty
ReuseFirst ==
    /\ pc = "reuse_first"
    /\ \E y \in ReuseFirstInputs, gotDict \in PoolGet(pool.dicts),
          gotBuf \in PoolGet(pool.bufs) :
         /\ hc' = HcRun(HcEnter(y, CallDict(pool, gotDict), ClampLevel(9)))
         /\ pool' = PoolAfterCall(pool, 1, y, 9, gotDict, gotBuf, hc')
    /\ cmp' = CallReturn(hc')
    /\ pc' = "reuse_second"
    /\ UNCHANGED <<cb, inBuf, level, fast, dec, api>>

\* compress999Level(x, L) from its call to its return: sync.Pool.Get may hand
\* out the dictionary and the buffer of the first call, or nothing
ReuseSecond ==
    /\ pc = "reuse_second"
    /\ \E gotDict \in PoolGet(pool.dicts) :
         /\ hc' = HcRun(HcEnter(inBuf, CallDict(pool, gotDict), ClampLevel(level)))
         /\ \E gotBuf \in PoolGet(pool.bufs) :
                pool' = PoolAfterCall(pool, 2, inBuf, level, gotDict, gotBuf, hc')
    /\ cmp' = CallReturn(hc')
    /\ pc' = "reuse_done"
    /\ UNCHANGED <<cb, inBuf, level, fast, dec, api>>

InitReuse ==
    /\ pc = "reuse_first"
    /\ inBuf \in ReuseInputs
    /\ level \in ParseLevels
    /\ fast = FastIdle
    /\ hc = HcIdle
    /\ cmp = CmpIdle
    /\ dec = DecIdle
    /\ api = ApiIdle
    /\ cb = CopyIdle
    /\ pool = PoolIdle

ReuseNext ==
    \/ ReuseFirst
    \/ ReuseSecond

\* Two calls of compress999Level, one after the other, on one dictionary
SpecReuse == InitReuse /\ [][ReuseNext]_vars

\* C30: the output of compress999Level(x, L) is the same whether the dictionary
\* it acquires is freshly zeroed or was used before to compress another input y:
\* what init does not reset (head, chain, slotKey, bestLen, the ring bytes
\* behind the loaded lookahead and the guard) does not reach the stream.
C30_PooledDictionaryDeterminism ==
    pc = "reuse_done" =>
        LET fresh == HcRun(HcEnter(inBuf, FreshDict, ClampLevel(level)))
        IN  /\ cmp = CallReturn(fresh)
            /\ pool.calls[2].out = CallReturn(fresh).out
            /\ hc.emitted = fresh.emitted

\* The second call found matches in a dictionary whose tables the first call,
\* on another input, had written.
C30_Witness ==
    /\ pc = "reuse_done"
    /\ pool.calls[1].in # inBuf
    /\ pool.calls[2].pooled
    /\ Len(pool.dictMem) = 1
    /\ Len(hc.emitted) > 0
    /\ cmp.err = ErrNone


----------------------------------------------------------------------------
(* The stream against the size of its buffer, on inputs of kilobytes. *)

\* The largest of the inputs without matches
FitLen == 4096

\* n bytes in which no pair of bytes occurs twice (n up to 32768): the parser
\* finds no match and the stream is one literal run
Incompressible(n) ==
    [i \in 1 .. n |-> ((i - 1) * (1 + 2 * ((i - 1) \div 256))) % 256]

\* The same bytes, with every 7 bytes the 3 bytes that stand d bytes earlier:
\* runs of 4 literals between matches of 3 bytes at the distance d
Interleaved(n, d) ==
    [i \in 1 .. n |-> IF i > d /\ (i - 1) % 7 >= 4
                      THEN Incompressible(n)[i - d] ELSE Incompressible(n)[i]]

\* Short inputs, and inputs on which the stream grows most: a single literal
\* run with its extension bytes, at the lengths where the run's header changes
\* and where inLen / 16 changes, and literal runs between short matches
FitInputs ==
    Inputs
        \cup { Incompressible(n) : n \in {15, 16, 17, 238, 239, 273, 274, 528, 529, FitLen} }
        \cup { Interleaved(FitLen, maxOffsetM2), Interleaved(FitLen, maxOffsetMX),
               Interleaved(FitLen, maxOffsetMX + 7) }

\* At most n passes of the loop of compress999NoAlloc: the first half of them
\* followed by the rest (the loop takes at least one byte per pass, so
\* len(in) + 1 passes run it to its end)
RECURSIVE HcRunWithin(_, _)
HcRunWithin(c, n) ==
    IF n <= 0 \/ ~(c.running /\ c.h.bufSize > 0) THEN c
    ELSE IF n = 1 THEN HcPass(c)
    ELSE LET c1 == HcRunWithin(c, n \div 2)
         IN  HcRunWithin(c1, n - (n \div 2))

\* compress999NoAlloc up to the end of its loop
FitRun ==
    /\ pc = "parse_call"
    /\ hc' = HcRunWithin(HcEnter(inBuf, FreshDict, level), Len(inBuf) + 1)
    /\ pc' = "parse_tail"
    /\ UNCHANGED <<pool, cb, inBuf, level, fast, cmp, dec, api>>

FitNext ==
    \/ FitRun
    \/ ParseReturn

InitFit ==
    /\ pc = "parse_call"
    /\ inBuf \in FitInputs
    /\ level \in 1 .. 9
    /\ fast = FastIdle
    /\ hc = HcIdle
    /\ cmp = CmpIdle
    /\ dec = DecIdle
    /\ api = ApiIdle
    /\ cb = CopyIdle
    /\ pool = PoolIdle

\* compress999NoAlloc at every level 1..9
SpecFit == InitFit /\ [][FitNext]_vars

\* C15: for every input and every level 1..9 the stream of the HC compressor,
\* terminator included, fits in inLen + inLen/16 + 64 + 3 bytes: no writeByte /
\* writeSlice is refused and ErrCompressInternal is not returned.
C15_StreamFits ==
    /\ (pc \in {"parse_tail", "parse_done"}
            => /\ hc.o.err = ErrNone
               /\ Len(hc.o.data) <= hc.o.cap)
    /\ (pc = "parse_done"
            => /\ cmp.err = ErrNone
               /\ Len(cmp.out.data) <= Len(inBuf) + (Len(inBuf) \div 16) + 64 + 3)

\* The run has come to the end of its loop
FitRunComplete == pc = "parse_tail" => ~(hc.running /\ hc.h.bufSize > 0)

\* The stream of an input of FitLen bytes without a match: one literal run, its
\* header and one extension byte for every 255 bytes, and the end marker
C15_FitWitness ==
    /\ pc = "parse_done"
    /\ cmp.err = ErrNone
    /\ Len(inBuf) = FitLen
    /\ hc.emitted = <<>>
    /\ Len(cmp.out.data) >= Len(inBuf) + (Len(inBuf) \div 255) + 4

==========================================================================
